---------------------------- MODULE Spec2Model ----------------------------
(***************************************************************************)
(* Model of the end-to-end step orchestrator of long-running-agent         *)
(* (src/unnamed/part_000: runAllTests, runFeatureTest, executeStep and the *)
(* text helpers).                                                          *)
(*                                                                         *)
(* A JavaScript string is a sequence of characters.  An ASCII character is *)
(* the one-character string itself; a CJK character is written by its code *)
(* point ("U6253" is the character U+6253), so that includes(), replace()  *)
(* and trim() are computed on characters as the code computes them.        *)
(***************************************************************************)
EXTENDS Integers, Sequences, FiniteSets, TLC

\* ------------------------------------------------------------------ bounds
MaxSteps == 2
MaxFeatures == 2
MaxPieces == 3
MaxInputPieces == 5
MaxAttempts == 2
MaxCommands == 4

\* ------------------------------------------------------- string primitives
RECURSIVE Concat(_)
Concat(ss) == IF ss = <<>> THEN <<>> ELSE Head(ss) \o Concat(Tail(ss))

\* s.startsWith(p)
StartsWith(s, p) == Len(p) <= Len(s) /\ SubSeq(s, 1, Len(p)) = p

\* whether p occurs in s at (1-based) position i
OccursAt(s, p, i) == i + Len(p) - 1 <= Len(s) /\ SubSeq(s, i, i + Len(p) - 1) = p

\* s.includes(p)
Includes(s, p) == \E i \in 1..(Len(s) + 1) : OccursAt(s, p, i)

\* the characters matched by \s and removed by trim()
WhiteSpace == {" ", "U3000"}

\* the characters of the class ["...] removed by the quote-stripping replace
QuoteChars == {"\"", "U300C", "U300D", "U300E", "U300F"}

AsciiUpper == <<"A", "B", "C", "D", "E", "F", "G", "H", "I", "J", "K", "L", "M",
                "N", "O", "P", "Q", "R", "S", "T", "U", "V", "W", "X", "Y", "Z">>
AsciiLower == <<"a", "b", "c", "d", "e", "f", "g", "h", "i", "j", "k", "l", "m",
                "n", "o", "p", "q", "r", "s", "t", "u", "v", "w", "x", "y", "z">>

\* String.prototype.toLowerCase on the characters of the model
ToLowerCase(s) ==
    [i \in 1..Len(s) |->
        IF \E k \in 1..26 : AsciiUpper[k] = s[i]
        THEN AsciiLower[CHOOSE k \in 1..26 : AsciiUpper[k] = s[i]]
        ELSE s[i]]

\* the number of leading whitespace characters of s
RECURSIVE LeadingSpaces(_)
LeadingSpaces(s) ==
    IF s # <<>> /\ Head(s) \in WhiteSpace THEN 1 + LeadingSpaces(Tail(s)) ELSE 0

DropLeadingSpaces(s) == SubSeq(s, LeadingSpaces(s) + 1, Len(s))

RECURSIVE Reverse(_)
Reverse(s) == IF s = <<>> THEN <<>> ELSE Reverse(Tail(s)) \o <<Head(s)>>

\* String.prototype.trim
Trim(s) == Reverse(DropLeadingSpaces(Reverse(DropLeadingSpaces(s))))

\* s.replace(/["...]/g, '')
StripQuotes(s) == SelectSeq(s, LAMBDA c : c \notin QuoteChars)

\* s.replace(/^(v1|v2|...)\s*/i, ''): the first alternative that the text
\* starts with is removed together with the whitespace after it
StripLeadingVerb(s, verbs) ==
    IF \E k \in 1..Len(verbs) : StartsWith(s, verbs[k])
    THEN LET k == CHOOSE j \in 1..Len(verbs) :
                     /\ StartsWith(s, verbs[j])
                     /\ \A m \in 1..(j - 1) : ~StartsWith(s, verbs[m])
         IN  DropLeadingSpaces(SubSeq(s, Len(verbs[k]) + 1, Len(s)))
    ELSE s

\* ---------------------------------------------------------------- keywords
KwOpen    == <<"U6253", "U5F00">>            \* 打开
KwEnter   == <<"U8FDB", "U5165">>            \* 进入
KwVisit   == <<"U8BBF", "U95EE">>            \* 访问
KwClick   == <<"U70B9", "U51FB">>            \* 点击
KwInput   == <<"U8F93", "U5165">>            \* 输入
KwFillIn  == <<"U586B", "U5199">>            \* 填写
KwVerify  == <<"U9A8C", "U8BC1">>            \* 验证
KwCheck   == <<"U68C0", "U67E5">>            \* 检查
KwConfirm == <<"U786E", "U8BA4">>            \* 确认
KwLogin   == <<"U767B", "U5F55">>            \* 登录
KwWait    == <<"U7B49", "U5F85">>            \* 等待
KwSelect  == <<"U9009", "U62E9">>            \* 选择
KwStudentId == <<"U5B66", "U53F7">>          \* 学号
KwPassword  == <<"U5BC6", "U7801">>          \* 密码

LabelLoginPage  == <<"U767B", "U5F55", "U9875">>          \* 登录页
LabelCourseList == <<"U8BFE", "U7A0B", "U5217", "U8868">> \* 课程列表
LabelSchedule   == <<"U8BFE", "U7A0B", "U8868">>          \* 课程表
LabelProfile    == <<"U4E2A", "U4EBA", "U4E2D", "U5FC3">> \* 个人中心
LabelSelected   == <<"U5DF2", "U9009", "U8BFE", "U7A0B">> \* 已选课程

PathLogin    == <<"/", "l", "o", "g", "i", "n">>
PathCourses  == <<"/", "c", "o", "u", "r", "s", "e", "s">>
PathSchedule == <<"/", "s", "c", "h", "e", "d", "u", "l", "e">>
PathProfile  == <<"/", "p", "r", "o", "f", "i", "l", "e">>
PathSelected == <<"/", "s", "e", "l", "e", "c", "t", "e", "d">>

\* the label -> path table, in the order of the alternation of extractTarget
RouteLabels == <<LabelLoginPage, LabelCourseList, LabelSchedule, LabelProfile, LabelSelected>>
RoutePaths  == <<PathLogin, PathCourses, PathSchedule, PathProfile, PathSelected>>

\* routes[target] || target
RouteOf(target) ==
    IF \E k \in 1..Len(RouteLabels) : RouteLabels[k] = target
    THEN RoutePaths[CHOOSE k \in 1..Len(RouteLabels) : RouteLabels[k] = target]
    ELSE target


\* ---------------------------------------------------- Target/Field Extractor
TargetVerbs == <<KwOpen, KwEnter, KwVisit, KwClick, KwVerify, KwCheck, KwConfirm,
                 KwSelect, KwWait>>
VerifyVerbs == <<KwVerify, KwCheck, KwConfirm>>

\* .replace(/^(label1|label2|...)/, match => routes[match] || match)
ReplaceLeadingLabel(s) ==
    IF \E k \in 1..Len(RouteLabels) : StartsWith(s, RouteLabels[k])
    THEN LET k == CHOOSE j \in 1..Len(RouteLabels) :
                     /\ StartsWith(s, RouteLabels[j])
                     /\ \A m \in 1..(j - 1) : ~StartsWith(s, RouteLabels[m])
         IN  RouteOf(RouteLabels[k]) \o SubSeq(s, Len(RouteLabels[k]) + 1, Len(s))
    ELSE s

\* (mutant) the label of a route is left as it is, not replaced by its path
extractTargetKeepsLabel(step) == Trim(StripQuotes(StripLeadingVerb(step, TargetVerbs)))

extractTarget(step) ==
    Trim(StripQuotes(ReplaceLeadingLabel(StripLeadingVerb(step, TargetVerbs))))

\* the target of a Verify step: verb and quotes stripped, no path substituted
verifyTarget(step) == Trim(StripQuotes(StripLeadingVerb(step, VerifyVerbs)))

\* the longest prefix of s without whitespace: what a greedy (\S+) takes
RECURSIVE NonSpaceRun(_)
NonSpaceRun(s) ==
    IF s # <<>> /\ Head(s) \notin WhiteSpace
    THEN <<Head(s)>> \o NonSpaceRun(Tail(s)) ELSE <<>>

NoMatch == [found |-> FALSE, field |-> <<>>, value |-> <<>>]

\* \s*(\S+)\s+(\S+) matched at the start of rest
MatchFieldValue(rest) ==
    LET r1    == DropLeadingSpaces(rest)
        field == NonSpaceRun(r1)
        r2    == SubSeq(r1, Len(field) + 1, Len(r1))
        r3    == DropLeadingSpaces(r2)
        value == NonSpaceRun(r3)
    IN  IF field # <<>> /\ LeadingSpaces(r2) >= 1 /\ value # <<>>
        THEN [found |-> TRUE, field |-> field, value |-> value]
        ELSE NoMatch

\* step.match(/kw\s*(\S+)\s+(\S+)/): the leftmost position where it matches
MatchVerbFieldValue(step, kw) ==
    LET After(i) == SubSeq(step, i + Len(kw), Len(step))
        Hits == {i \in 1..Len(step) :
                    OccursAt(step, kw, i) /\ MatchFieldValue(After(i)).found}
    IN  IF Hits = {} THEN NoMatch
        ELSE MatchFieldValue(After(CHOOSE i \in Hits : \A j \in Hits : i <= j))

KwIn      == <<"U5728">>                     \* 在
KwInInput == <<"U4E2D", "U8F93", "U5165">>   \* 中输入

\* \s*(\S+)\s*KwInInput\s*(\S+) matched at the start of rest: (\S+) is greedy
\* and gives characters back until the rest of the pattern matches
MatchInFieldInput(rest) ==
    LET r1  == DropLeadingSpaces(rest)
        run == NonSpaceRun(r1)
        Tail2(n) == DropLeadingSpaces(SubSeq(r1, n + 1, Len(r1)))
        Value(n) == NonSpaceRun(DropLeadingSpaces(
                        SubSeq(Tail2(n), Len(KwInInput) + 1, Len(Tail2(n)))))
        Fits == {n \in 1..Len(run) :
                    StartsWith(Tail2(n), KwInInput) /\ Value(n) # <<>>}
    IN  IF Fits = {} THEN NoMatch
        ELSE LET n == CHOOSE m \in Fits : \A j \in Fits : j <= m
             IN  [found |-> TRUE, field |-> SubSeq(r1, 1, n), value |-> Value(n)]

MatchInPattern(step) ==
    LET After(i) == SubSeq(step, i + Len(KwIn), Len(step))
        Hits == {i \in 1..Len(step) :
                    OccursAt(step, KwIn, i) /\ MatchInFieldInput(After(i)).found}
    IN  IF Hits = {} THEN NoMatch
        ELSE MatchInFieldInput(After(CHOOSE i \in Hits : \A j \in Hits : i <= j))

DefaultField == <<"i", "n", "p", "u", "t">>
DefaultValue == <<"t", "e", "s", "t">>

\* (mutant) the second pattern is tried before the first
extractInputFillInFirst(step, testData) ==
    LET m1 == MatchVerbFieldValue(step, KwFillIn)
        m2 == MatchVerbFieldValue(step, KwInput)
        m3 == MatchInPattern(step)
    IN  IF m1.found THEN [field |-> m1.field, value |-> m1.value]
        ELSE IF m2.found THEN [field |-> m2.field, value |-> m2.value]
        ELSE IF m3.found THEN [field |-> m3.field, value |-> m3.value]
        ELSE IF testData.has THEN [field |-> testData.field, value |-> testData.value]
        ELSE [field |-> DefaultField, value |-> DefaultValue]

\* testData is [has |-> BOOLEAN, field, value]: the feature's optional testData
extractInput(step, testData) ==
    LET m1 == MatchVerbFieldValue(step, KwInput)
        m2 == MatchVerbFieldValue(step, KwFillIn)
        m3 == MatchInPattern(step)
    IN  IF m1.found THEN [field |-> m1.field, value |-> m1.value]
        ELSE IF m2.found THEN [field |-> m2.field, value |-> m2.value]
        ELSE IF m3.found THEN [field |-> m3.field, value |-> m3.value]
        ELSE IF testData.has THEN [field |-> testData.field, value |-> testData.value]
        ELSE [field |-> DefaultField, value |-> DefaultValue]

NoTestData == [has |-> FALSE, field |-> <<>>, value |-> <<>>]

\* one of the three patterns of extractInput matches the step
PatternMatches(step) ==
    \/ MatchVerbFieldValue(step, KwInput).found
    \/ MatchVerbFieldValue(step, KwFillIn).found
    \/ MatchInPattern(step).found

NoInput == [field |-> <<>>, value |-> <<>>]

\* a call extractInput(step, feature) whose feature argument is given or not
\* (given: the features passed, none or one): feature.testData is read at line
\* 408, after the loop over the patterns, and throws a TypeError when feature
\* is undefined
extractInputCall(step, given) ==
    IF given # <<>> THEN [threw |-> FALSE, input |-> extractInput(step, given[1].testData)]
    ELSE IF PatternMatches(step)
    THEN [threw |-> FALSE, input |-> extractInput(step, NoTestData)]
    ELSE [threw |-> TRUE, input |-> NoInput]

\* ---------------------------------------------------------- Step Classifier
\* (mutant) the Verify keywords are tested before the Click keyword
ClassifyVerifyFirst(step) ==
    LET lower == ToLowerCase(step)
    IN  IF Includes(lower, KwOpen) \/ Includes(lower, KwEnter) \/ Includes(lower, KwVisit)
        THEN "Navigate"
        ELSE IF Includes(lower, KwVerify) \/ Includes(lower, KwCheck) \/ Includes(lower, KwConfirm)
        THEN "Verify"
        ELSE IF Includes(lower, KwClick) THEN "Click"
        ELSE IF Includes(lower, KwInput) \/ Includes(lower, KwFillIn) THEN "Fill"
        ELSE IF Includes(lower, KwLogin) THEN "Login"
        ELSE IF Includes(lower, KwWait) THEN "Wait"
        ELSE "Default"

\* the if / else-if chain of executeStep, on the lower-cased step text
classify(step) ==
    LET lower == ToLowerCase(step)
    IN  IF Includes(lower, KwOpen) \/ Includes(lower, KwEnter) \/ Includes(lower, KwVisit)
        THEN "Navigate"
        ELSE IF Includes(lower, KwClick) THEN "Click"
        ELSE IF Includes(lower, KwInput) \/ Includes(lower, KwFillIn) THEN "Fill"
        ELSE IF Includes(lower, KwVerify) \/ Includes(lower, KwCheck) \/ Includes(lower, KwConfirm)
        THEN "Verify"
        ELSE IF Includes(lower, KwLogin) THEN "Login"
        ELSE IF Includes(lower, KwWait) THEN "Wait"
        ELSE "Default"

\* the two-field sub-case of a Fill step
IsCredentialFill(step) ==
    Includes(ToLowerCase(step), KwStudentId) /\ Includes(ToLowerCase(step), KwPassword)

\* \d of the regular expression of line 352
Digits == <<"0", "1", "2", "3", "4", "5", "6", "7", "8", "9">>
IsDigit(c) == \E d \in 1..Len(Digits) : Digits[d] = c
DigitValue(c) == (CHOOSE d \in 1..Len(Digits) : Digits[d] = c) - 1

\* parseInt of a string of decimal digits
RECURSIVE parseInt(_)
parseInt(s) ==
    IF s = <<>> THEN 0
    ELSE 10 * parseInt(SubSeq(s, 1, Len(s) - 1)) + DigitValue(s[Len(s)])

\* step.match(/(\d+)/): the leftmost digit and the digits that follow it
DigitRun(s) ==
    IF \A i \in 1..Len(s) : ~IsDigit(s[i]) THEN NoMatch
    ELSE LET a == CHOOSE i \in 1..Len(s) : IsDigit(s[i]) /\ \A j \in 1..(i - 1) : ~IsDigit(s[j])
             b == CHOOSE i \in a..Len(s) :
                     /\ \A j \in a..i : IsDigit(s[j])
                     /\ i = Len(s) \/ ~IsDigit(s[i + 1])
         IN  [found |-> TRUE, field |-> SubSeq(s, a, b), value |-> <<>>]

DefaultWaitMs == 2000

\* (mutant) the last integer of the text is taken
waitMsLastInteger(step) ==
    LET m == DigitRun(Reverse(step))
    IN  IF m.found THEN parseInt(Reverse(m.field)) ELSE DefaultWaitMs

\* lines 352-353: msMatch ? parseInt(msMatch[1]) : 2000
waitMs(step) ==
    LET msMatch == DigitRun(step)
    IN  IF msMatch.found THEN parseInt(msMatch.field) ELSE DefaultWaitMs


\* ------------------------------------------------------------ data model
\* error values (null and the messages the code builds)
NoError == [kind |-> "null"]
ErrNotInstalled == [kind |-> "agent-browser is not installed"]
ErrPageLoad == [kind |-> "Page failed to load"]
ErrCredentials == [kind |-> "Failed to fill login credentials"]
ErrLogin == [kind |-> "Login step failed"]
\* step.toLowerCase is not a function / cannot read properties of null
ErrTypeError == [kind |-> "TypeError"]
\* error.message of a failed execSync: non-zero exit or timeout
ErrExec(exit, cmd) ==
    [kind |-> IF exit = "timeout" THEN "ETIMEDOUT" ELSE "Command failed", cmd |-> cmd]
ErrOpen(cause) == [kind |-> "Failed to open browser: ", cause |-> cause]
\* (mutant) the step is named by the loop index i, not by i + 1
ErrStepZeroBased(n, reason) == [kind |-> "Step n failed: ", n |-> n - 1, reason |-> reason]
ErrStep(n, reason) == [kind |-> "Step n failed: ", n |-> n, reason |-> reason]
ErrCouldNotClick(target) == [kind |-> "Could not click: ", target |-> target]
ErrCouldNotFill(field) == [kind |-> "Could not fill field: ", target |-> field]
ErrCouldNotFind(target) == [kind |-> "Could not find: ", target |-> target]

Str(chars) == [str |-> TRUE, text |-> chars]
\* a step that is not a string (null or a number in the feature list's JSON)
NonString == [str |-> FALSE, text |-> <<>>]


DefaultBaseUrl == <<"h", "t", "t", "p", ":", "/", "/", "l", "o", "c", "a", "l", "h", "o", "s", "t",
                    ":", "3", "0", "0", "0">>
HeadedFlag == <<"-", "-", "h", "e", "a", "d", "e", "d">>

\* options.baseUrl || 'http://localhost:3000'
BaseUrlOf(opts) == IF opts.baseUrl # <<>> THEN opts.baseUrl ELSE DefaultBaseUrl

\* ------------------------------------------------------- Process Gateway
Cmd(name, args) == [name |-> name, args |-> args]

CmdClose == Cmd("close", <<>>)
CmdSnapshot == Cmd("snapshot -i --json", <<>>)
CmdGetText == Cmd("get text body", <<>>)
CmdUrl == Cmd("url", <<>>)
CmdOpenSession(opts) ==
    Cmd("open", <<BaseUrlOf(opts), IF opts.headless THEN <<>> ELSE HeadedFlag>>)
CmdNavigate(url) == Cmd("open", <<url>>)
CmdScreenshot(path) == Cmd("screenshot", <<path>>)
CmdFindPlaceholderFill(field, value) == Cmd("find placeholder fill", <<field, value>>)
CmdFillSelector(field, value) == Cmd("fill [placeholder*=]", <<field, value>>)
CmdFindRoleButtonClick(name) == Cmd("find role button click --name", <<name>>)
CmdFindTextClick(text) == Cmd("find text click", <<text>>)
CmdClickTextSelector(text) == Cmd("click text=", <<text>>)

\* what the child process did: its exit and what it wrote to standard output
Exits == {"ok", "fail", "timeout"}
NoOutput == [kind |-> "text", text |-> <<>>]
TextOutput(chars) == [kind |-> "text", text |-> chars]
JsonOutput(success, hasData, data) ==
    [kind |-> "json", success |-> success, hasData |-> hasData, data |-> data]
Exec(exit, stdout) == [exit |-> exit, stdout |-> stdout]

\* (mutant) only a non-zero exit is reported as a failure
runAgentBrowserCommandTimeoutPasses(cmd, exec) ==
    IF exec.exit # "fail"
    THEN [success |-> TRUE, output |-> exec.stdout, error |-> NoError]
    ELSE [success |-> FALSE, output |-> exec.stdout, error |-> ErrExec(exec.exit, cmd)]

\* runAgentBrowserCommand: a timeout and a non-zero exit both land in the catch
runAgentBrowserCommand(cmd, exec) ==
    IF exec.exit = "ok"
    THEN [success |-> TRUE, output |-> exec.stdout, error |-> NoError]
    ELSE [success |-> FALSE, output |-> exec.stdout, error |-> ErrExec(exec.exit, cmd)]

\* result.output is truthy: a non-empty string
OutputTruthy(out) == ~(out.kind = "text" /\ out.text = <<>>)

NullSnapshot == [parsed |-> FALSE, success |-> FALSE, hasData |-> FALSE, data |-> <<>>]

\* getSnapshot: the parsed JSON, or null when the command failed, printed
\* nothing or printed something that is not JSON
getSnapshot(result) ==
    IF result.success /\ OutputTruthy(result.output) /\ result.output.kind = "json"
    THEN [parsed |-> TRUE, success |-> result.output.success,
          hasData |-> result.output.hasData, data |-> result.output.data]
    ELSE NullSnapshot

\* JSON.stringify of a snapshot's data (a string value: the text in quotes)
SnapshotText(data) == <<"\"">> \o data \o <<"\"">>

\* checkAgentBrowserInstalled() || ensureAgentBrowserInstalled(), by what the
\* three child processes (which, npm install -g, agent-browser install) did
ensureAgentBrowserInstalled(whichOk, npmOk, installOk) == whichOk \/ (npmOk /\ installOk)


\* ----------------------------------------------------------------- inputs
StepNavigate == Str(KwOpen \o <<" ">> \o LabelLoginPage)       \* 打开 登录页
StepClickVerify == Str(KwClick \o <<"U5E76">> \o KwVerify \o LabelCourseList) \* 点击并验证课程列表
StepFill == Str(KwInput \o <<" ", "U7528", "U6237", "U540D", " ", "a", "l", "i", "c", "e">>) \* 输入 用户名 alice
StepCredentials == Str(KwInput \o KwStudentId \o <<"U548C">> \o KwPassword) \* 输入学号和密码
StepVerify == Str(KwVerify \o <<" ">> \o LabelCourseList)      \* 验证 课程列表
StepLogin == Str(KwLogin)                                       \* 登录
StepWait == Str(KwWait \o <<" ", "5", "0", "0">>)               \* 等待 500
StepWaitPlain == Str(KwWait)                                    \* 等待
StepWaitTwice == Str(KwWait \o <<"3", "0", "m", "s", " ", "x", "2">>) \* 等待30ms x2
StepOther == Str(<<"U63D0", "U4EA4">>)                          \* 提交

StepValues == {StepNavigate, StepClickVerify, StepFill, StepCredentials, StepVerify,
               StepLogin, StepWait, StepWaitPlain, StepWaitTwice, StepOther, NonString}

RECURSIVE SeqsUpTo(_, _)
SeqsUpTo(S, n) ==
    IF n = 0 THEN {<<>>}
    ELSE LET shorter == SeqsUpTo(S, n - 1)
         IN  shorter \cup {Append(q, x) : q \in {r \in shorter : Len(r) = n - 1}, x \in S}

FeatureIds == <<"feat-001", "feat-002", "feat-003", "feat-004">>

Feature(id, passes, hasSteps, steps) ==
    [id |-> id, description |-> id, passes |-> passes, hasSteps |-> hasSteps,
     steps |-> steps, testData |-> NoTestData]

\* the steps before the last one of a list: one that always passes without a
\* command and one that passes or fails by its commands
LeadingSteps == {StepOther, StepClickVerify}

\* the step lists of the features given to runFeatureTest directly: empty, or
\* up to MaxSteps steps, any step value last
StepLists ==
    {<<>>} \cup {Append(q, x) : q \in SeqsUpTo(LeadingSteps, MaxSteps - 1), x \in StepValues}

\* the step lists of the features of a batch
BatchStepLists == {<<>>, <<StepOther>>}

Options(testAll, headless) == [testAll |-> testAll, headless |-> headless, baseUrl |-> <<>>]

\* what the browser shows once it has settled
Welcome == <<"U6B22", "U8FCE">>                                 \* 欢迎
PageTexts == {LabelCourseList, Welcome}
PageUrls == {DefaultBaseUrl \o PathCourses, DefaultBaseUrl \o PathLogin}
Pages == [snap : PageTexts, text : PageTexts, url : PageUrls]
BlankPage == [snap |-> <<>>, text |-> <<>>, url |-> <<>>]

\* ---------------------------------------------------------------- state
VARIABLES
    entry,       \* the exported function that was called
    features,    \* runAllTests' features (runFeatureTest's feature is features[1])
    options,     \* the options argument
    pc,          \* where the call is
    fi,          \* runAllTests: index of the feature of the for-of loop
    batch,       \* runAllTests: results, passed, failed
    summary,     \* what runAllTests returned (read when pc = "ra_done")
    results,     \* runFeatureTest: results (its return value when pc = "ft_return")
    openResult,  \* runFeatureTest: openResult
    si,          \* runFeatureTest: i + 1, the number of the current step
    es,          \* executeStep: the step it was called for, result, what it read, ms of a Wait
    snapshot,    \* runFeatureTest: snapshot of the generic validation block
    page,        \* the page of the browser while a Verify step reads it
    log,         \* the runAgentBrowserCommand calls made so far, in order
    txt,         \* the text a helper is applied to on its own
    out          \* what the helper returned; in a run, how the last command ended

vars == <<entry, features, options, pc, fi, batch, summary, results, openResult, si, es,
          snapshot, page, log, txt, out>>

feature == features[fi]

NoResult == [success |-> FALSE, output |-> NoOutput, error |-> NoError]
NoStep == [step |-> 0, passed |-> FALSE, error |-> NoError, attempt |-> 0, ms |-> 0,
           snapshot |-> "none", text |-> "none", url |-> "none"]
\* const result = { passed: false, error: null } of the call for step k
NewStep(k) == [NoStep EXCEPT !.step = k]
NoOut == [op |-> "none"]
NoFeatureResult ==
    [featureId |-> "", description |-> "", steps |-> <<>>, passed |-> FALSE,
     error |-> NoError, screenshots |-> <<>>]
NoSummary == [total |-> 0, passed |-> 0, failed |-> 0, results |-> <<>>, error |-> NoError]

InitCommon ==
    /\ fi = 1
    /\ batch = [results |-> <<>>, passed |-> 0, failed |-> 0]
    /\ summary = NoSummary
    /\ results = NoFeatureResult
    /\ openResult = NoResult
    /\ si = 0
    /\ es = NoStep
    /\ snapshot = NullSnapshot
    /\ page = BlankPage
    /\ log = <<>>
    /\ out = NoOut

\* a direct call runFeatureTest(feature, options)
InitFeatureTest ==
    /\ entry = "runFeatureTest"
    /\ pc = "ft_check"
    /\ \E hasSteps \in BOOLEAN, steps \in StepLists :
          /\ (~hasSteps => steps = <<>>)
          /\ features = <<Feature(FeatureIds[1], FALSE, hasSteps, steps)>>
    /\ \E headless \in BOOLEAN : options = Options(FALSE, headless)
    /\ txt = <<>>

\* a call runAllTests(features, options)
InitAllTests ==
    /\ entry = "runAllTests"
    /\ pc = "ra_ensure"
    /\ \E n \in 0..MaxFeatures :
          \E passes \in [1..n -> BOOLEAN], steps \in [1..n -> BatchStepLists] :
             features = [i \in 1..n |-> Feature(FeatureIds[i], passes[i], TRUE, steps[i])]
    /\ \E testAll \in BOOLEAN : options = Options(testAll, FALSE)
    /\ txt = <<>>

Init == InitCommon /\ (InitFeatureTest \/ InitAllTests)

\* one runAgentBrowserCommand call, as the log keeps it: the command, what the
\* caller saw ("ok", "fail", or "ignored" when it drops the result), and the
\* feature and step (0: none) it was made for
Issued(cmd, res, step) == [cmd |-> cmd, res |-> res, feat |-> fi, step |-> step]
Seen(result) == IF result.success THEN "ok" ELSE "fail"
\* how the child process of the last call ended (ok, non-zero exit, timeout)
Ran(exit) == [op |-> "runAgentBrowserCommand", exit |-> exit]


\* -------------------------------------------------------- runFeatureTest
BatchVars == <<entry, features, options, fi, batch, summary, txt>>

\* (mutant) the early return is missing: the run goes on to open the browser
FtCheckDependencyNoReturn ==
    /\ pc = "ft_check"
    /\ \E whichOk, whichAgain, npmOk, installOk \in BOOLEAN :
          results' = [featureId |-> feature.id, description |-> feature.description,
                      steps |-> <<>>,
                      passed |-> whichOk \/ ensureAgentBrowserInstalled(whichAgain, npmOk, installOk),
                      error |-> IF whichOk \/ ensureAgentBrowserInstalled(whichAgain, npmOk, installOk)
                                THEN NoError ELSE ErrNotInstalled,
                      screenshots |-> <<>>]
    /\ pc' = "ft_open"
    /\ openResult' = NoResult /\ si' = 0 /\ es' = NoStep
    /\ UNCHANGED <<BatchVars, out, snapshot, page, log>>

\* lines 101-122: the dependency check and the initial results object
FtCheckDependency ==
    /\ pc = "ft_check"
    /\ \E whichOk, whichAgain, npmOk, installOk \in BOOLEAN :
          IF whichOk \/ ensureAgentBrowserInstalled(whichAgain, npmOk, installOk)
          THEN /\ results' = [featureId |-> feature.id, description |-> feature.description,
                              steps |-> <<>>, passed |-> TRUE, error |-> NoError,
                              screenshots |-> <<>>]
               /\ pc' = "ft_open"
          ELSE /\ results' = [featureId |-> feature.id, description |-> feature.description,
                              steps |-> <<>>, passed |-> FALSE, error |-> ErrNotInstalled,
                              screenshots |-> <<>>]
               /\ pc' = "ft_return"
    /\ openResult' = NoResult /\ si' = 0 /\ es' = NoStep
    /\ UNCHANGED <<BatchVars, out, snapshot, page, log>>

\* line 128: the first open (si: the loop of line 145 starts at its first step)
FtOpen ==
    /\ pc = "ft_open"
    /\ \E exit \in Exits :
          LET r == runAgentBrowserCommand(CmdOpenSession(options), Exec(exit, NoOutput))
          IN  /\ openResult' = r
              /\ log' = Append(log, Issued(CmdOpenSession(options), Seen(r), 0)) /\ out' = Ran(exit)
              /\ pc' = IF r.success THEN "ft_steps" ELSE "ft_retry_close"
    /\ si' = 1
    /\ UNCHANGED <<BatchVars, results, es, snapshot, page>>

\* (mutant) the retry is made without the close before it
FtRetryWithoutClose ==
    /\ pc = "ft_retry_close"
    /\ pc' = "ft_retry_open"
    /\ UNCHANGED <<BatchVars, out, results, openResult, si, es, snapshot, page, log>>

\* line 132: the close before the retry; its result is dropped
FtRetryClose ==
    /\ pc = "ft_retry_close"
    /\ \E exit \in Exits : log' = Append(log, Issued(CmdClose, "ignored", 0)) /\ out' = Ran(exit)
    /\ pc' = "ft_retry_open"
    /\ UNCHANGED <<BatchVars, results, openResult, si, es, snapshot, page>>

\* (mutant) the catch block fails the run and leaves the error unset
CaughtDropsError(res, error) == [res EXCEPT !.passed = FALSE]

\* what the catch block (lines 190-193) makes of results
Caught(res, error) == [res EXCEPT !.passed = FALSE, !.error = error]

\* (mutant) the second failure is not thrown: the steps run without a session
FtRetryOpenNoThrow ==
    /\ pc = "ft_retry_open"
    /\ \E exit \in Exits :
          LET r == runAgentBrowserCommand(CmdOpenSession(options), Exec(exit, NoOutput))
          IN  /\ openResult' = r
              /\ log' = Append(log, Issued(CmdOpenSession(options), Seen(r), 0)) /\ out' = Ran(exit)
    /\ pc' = "ft_steps"
    /\ UNCHANGED <<BatchVars, results, si, es, snapshot, page>>

\* (mutant) the open is retried until it succeeds
FtRetryOpenUntilOpen ==
    /\ pc = "ft_retry_open"
    /\ \E exit \in Exits :
          LET r == runAgentBrowserCommand(CmdOpenSession(options), Exec(exit, NoOutput))
          IN  /\ openResult' = r
              /\ log' = Append(log, Issued(CmdOpenSession(options), Seen(r), 0)) /\ out' = Ran(exit)
              /\ pc' = IF r.success THEN "ft_steps" ELSE "ft_retry_close"
    /\ UNCHANGED <<BatchVars, results, si, es, snapshot, page>>

\* lines 133-138: the one retry; a second failure throws into the catch block
FtRetryOpen ==
    /\ pc = "ft_retry_open"
    /\ \E exit \in Exits :
          LET r == runAgentBrowserCommand(CmdOpenSession(options), Exec(exit, NoOutput))
          IN  /\ openResult' = r
              /\ log' = Append(log, Issued(CmdOpenSession(options), Seen(r), 0)) /\ out' = Ran(exit)
              /\ IF r.success
                 THEN pc' = "ft_steps" /\ results' = results
                 ELSE pc' = "ft_finally" /\ results' = Caught(results, ErrOpen(r.error))
    /\ UNCHANGED <<BatchVars, si, es, snapshot, page>>

\* feature.steps && feature.steps.length > 0
HasSteps(f) == f.hasSteps /\ Len(f.steps) > 0

\* lines 145-149: the loop calls executeStep for step i
FtCallExecuteStep ==
    /\ pc = "ft_steps"
    /\ HasSteps(feature) /\ si <= Len(feature.steps)
    /\ feature.steps[si].str
    /\ es' = NewStep(si)
    /\ pc' = "es_begin"
    /\ UNCHANGED <<BatchVars, out, results, openResult, si, snapshot, page, log>>

\* (mutant) no catch block: the TypeError of line 207 leaves runFeatureTest
FtStepThrowsUncaught ==
    /\ pc = "ft_steps"
    /\ HasSteps(feature) /\ si <= Len(feature.steps)
    /\ ~feature.steps[si].str
    /\ pc' = "thrown"
    /\ UNCHANGED <<BatchVars, out, results, openResult, si, es, snapshot, page, log>>

\* line 207: step.toLowerCase() of a step that is no string throws before
\* executeStep's own try, into the catch block of runFeatureTest
FtStepThrows ==
    /\ pc = "ft_steps"
    /\ HasSteps(feature) /\ si <= Len(feature.steps)
    /\ ~feature.steps[si].str
    /\ results' = Caught(results, ErrTypeError)
    /\ pc' = "ft_finally"
    /\ UNCHANGED <<BatchVars, out, openResult, si, es, snapshot, page, log>>

\* (mutant) the loop ends one step early: i < feature.steps.length - 1
FtLoopEndOneEarly ==
    /\ pc = "ft_steps"
    /\ HasSteps(feature) /\ si >= Len(feature.steps)
    /\ pc' = "ft_finally"
    /\ UNCHANGED <<BatchVars, out, results, openResult, si, es, snapshot, page, log>>

\* line 145: i < feature.steps.length is false, the loop is over
FtLoopEnd ==
    /\ pc = "ft_steps"
    /\ HasSteps(feature) /\ si > Len(feature.steps)
    /\ pc' = "ft_finally"
    /\ UNCHANGED <<BatchVars, out, results, openResult, si, es, snapshot, page, log>>

\* the standard outputs a successful snapshot command may print for page p
SnapshotOutputs(p) ==
    {NoOutput, TextOutput(<<"<">>)}
        \cup {JsonOutput(s, d, IF d THEN p.snap ELSE <<>>) : s \in BOOLEAN, d \in BOOLEAN}

\* the child processes a read command may turn into, on page p
SnapshotExecs(p) ==
    {Exec(x, NoOutput) : x \in Exits \ {"ok"}} \cup {Exec("ok", o) : o \in SnapshotOutputs(p)}
ReadExecs(chars) ==
    {Exec(x, NoOutput) : x \in Exits \ {"ok"}} \cup {Exec("ok", TextOutput(t)) : t \in {<<>>, chars}}

\* (mutant) the generic validation tests the snapshot alone, not its success
FtGenericValidationAnySnapshot ==
    /\ pc = "ft_steps"
    /\ ~HasSteps(feature)
    /\ \E exec \in SnapshotExecs(page) :
          LET r == runAgentBrowserCommand(CmdSnapshot, exec)
          IN  /\ log' = Append(log, Issued(CmdSnapshot, Seen(r), 0)) /\ out' = Ran(exec.exit)
              /\ snapshot' = getSnapshot(r)
              /\ results' = IF snapshot'.parsed
                            THEN [results EXCEPT !.passed = TRUE]
                            ELSE [results EXCEPT !.passed = FALSE, !.error = ErrPageLoad]
    /\ pc' = "ft_finally"
    /\ UNCHANGED <<BatchVars, openResult, si, es, page>>

\* lines 175-188: no steps, the generic validation
FtGenericValidation ==
    /\ pc = "ft_steps"
    /\ ~HasSteps(feature)
    /\ \E exec \in SnapshotExecs(page) :
          LET r == runAgentBrowserCommand(CmdSnapshot, exec)
          IN  /\ log' = Append(log, Issued(CmdSnapshot, Seen(r), 0)) /\ out' = Ran(exec.exit)
              /\ snapshot' = getSnapshot(r)
              /\ results' = IF snapshot'.parsed /\ snapshot'.success
                            THEN [results EXCEPT !.passed = TRUE]
                            ELSE [results EXCEPT !.passed = FALSE, !.error = ErrPageLoad]
    /\ pc' = "ft_finally"
    /\ UNCHANGED <<BatchVars, openResult, si, es, page>>

\* (mutant) a failed step ends the loop and leaves results.passed as it was
FtStepResultKeepsPassed ==
    /\ pc = "es_return"
    /\ LET pushed == [results EXCEPT !.steps = Append(@,
                         [step |-> feature.steps[si], passed |-> es.passed, error |-> es.error])]
       IN  IF ~es.passed
           THEN /\ results' = [pushed EXCEPT !.error = ErrStep(si, es.error)]
                /\ pc' = "ft_screenshot"
                /\ si' = si
           ELSE /\ results' = pushed
                /\ pc' = "ft_steps"
                /\ si' = si + 1
    /\ page' = BlankPage
    /\ UNCHANGED <<BatchVars, out, openResult, es, snapshot, log>>

\* lines 151-173: the StepResult is pushed; a failed step ends the loop
FtStepResult ==
    /\ pc = "es_return"
    /\ LET pushed == [results EXCEPT !.steps = Append(@,
                         [step |-> feature.steps[si], passed |-> es.passed, error |-> es.error])]
       IN  IF ~es.passed
           THEN /\ results' = [pushed EXCEPT !.passed = FALSE, !.error = ErrStep(si, es.error)]
                /\ pc' = "ft_screenshot"
                /\ si' = si
           ELSE /\ results' = pushed
                /\ pc' = "ft_steps"
                /\ si' = si + 1
    /\ page' = BlankPage
    /\ UNCHANGED <<BatchVars, out, openResult, es, snapshot, log>>

\* test-failure-<feature.id>-<Date.now()>.png
ScreenshotPath(f) == <<"test-failure-", f.id, ".png">>

\* (mutant) a screenshot that fails is thrown into the catch block
FtScreenshotFailureCaught ==
    /\ pc = "ft_screenshot"
    /\ \E exit \in Exits :
          LET cmd == CmdScreenshot(ScreenshotPath(feature))
              r == runAgentBrowserCommand(cmd, Exec(exit, NoOutput))
          IN  /\ log' = Append(log, Issued(cmd, "ignored", si)) /\ out' = Ran(exit)
              /\ results' = IF r.success
                            THEN [results EXCEPT !.screenshots = Append(@, ScreenshotPath(feature))]
                            ELSE Caught(results, r.error)
    /\ pc' = "ft_finally"
    /\ UNCHANGED <<BatchVars, openResult, si, es, snapshot, page>>

\* lines 162-167: the failure screenshot; its result is dropped
FtScreenshot ==
    /\ pc = "ft_screenshot"
    /\ \E exit \in Exits :
          log' = Append(log, Issued(CmdScreenshot(ScreenshotPath(feature)), "ignored", si)) /\ out' = Ran(exit)
    /\ results' = [results EXCEPT !.screenshots = Append(@, ScreenshotPath(feature))]
    /\ pc' = "ft_finally"
    /\ UNCHANGED <<BatchVars, openResult, si, es, snapshot, page>>

\* (mutant) no finally block: the run returns without the close
FtFinallyNoClose ==
    /\ pc = "ft_finally"
    /\ snapshot' = NullSnapshot
    /\ pc' = "ft_return"
    /\ UNCHANGED <<BatchVars, out, results, openResult, si, es, page, log>>

\* (mutant) the close is in the catch block: a run that passed does not close
FtFinallyOnFailure ==
    /\ pc = "ft_finally"
    /\ log' = IF results.passed THEN log ELSE Append(log, Issued(CmdClose, "ignored", 0))
    /\ snapshot' = NullSnapshot
    /\ pc' = "ft_return"
    /\ UNCHANGED <<BatchVars, out, results, openResult, si, es, page>>

\* lines 194-197: finally, the close; its result is dropped (the block-scoped
\* snapshot of the generic validation is gone by now)
FtFinally ==
    /\ pc = "ft_finally"
    /\ \E exit \in Exits : log' = Append(log, Issued(CmdClose, "ignored", 0)) /\ out' = Ran(exit)
    /\ snapshot' = NullSnapshot
    /\ pc' = "ft_return"
    /\ UNCHANGED <<BatchVars, results, openResult, si, es, page>>

\* line 199 (and 104): a direct call returns results to its caller
FtReturn ==
    /\ entry = "runFeatureTest"
    /\ pc = "ft_return"
    /\ pc' = "done"
    /\ UNCHANGED <<BatchVars, out, results, openResult, si, es, snapshot, page, log>>


\* ------------------------------------------------------------ executeStep
stepText == feature.steps[si].text
StepFrame == <<BatchVars, results, openResult, si, snapshot>>

Http == <<"h", "t", "t", "p">>

\* target.startsWith('http') ? target : `${baseUrl}${target}`
NavigateUrl(target, baseUrl) == IF StartsWith(target, Http) THEN target ELSE baseUrl \o target

\* executeStep returns result
Return(passed, error) == [es EXCEPT !.passed = passed, !.error = error]

\* lines 211-220
EsNavigate ==
    /\ pc = "es_begin" /\ classify(stepText) = "Navigate"
    /\ \E exit \in Exits :
          LET cmd == CmdNavigate(NavigateUrl(extractTarget(stepText), BaseUrlOf(options)))
              navResult == runAgentBrowserCommand(cmd, Exec(exit, NoOutput))
          IN  /\ log' = Append(log, Issued(cmd, Seen(navResult), si)) /\ out' = Ran(exit)
              /\ es' = Return(navResult.success,
                              IF navResult.success THEN NoError ELSE navResult.error)
    /\ pc' = "es_return"
    /\ UNCHANGED <<StepFrame, page>>

\* (mutant) the text match is tried before the role-button match
clickStrategiesTextFirst(target) ==
    <<CmdFindTextClick(target), CmdFindRoleButtonClick(target), CmdClickTextSelector(target)>>

\* lines 227-231
clickStrategies(target) ==
    <<CmdFindRoleButtonClick(target), CmdFindTextClick(target), CmdClickTextSelector(target)>>

\* lines 223-244: one turn of the loop over the click strategies
EsClick ==
    /\ \/ pc = "es_begin" /\ classify(stepText) = "Click"
       \/ pc = "es_click"
    /\ LET target == extractTarget(stepText)
           n == es.attempt + 1
           cmd == clickStrategies(target)[n]
       IN  \E exit \in Exits :
              LET clickResult == runAgentBrowserCommand(cmd, Exec(exit, NoOutput))
              IN  /\ log' = Append(log, Issued(cmd, Seen(clickResult), si)) /\ out' = Ran(exit)
                  /\ IF clickResult.success
                     THEN es' = [Return(TRUE, NoError) EXCEPT !.attempt = n] /\ pc' = "es_return"
                     ELSE IF n < Len(clickStrategies(target))
                     THEN es' = [es EXCEPT !.attempt = n] /\ pc' = "es_click"
                     ELSE /\ es' = [Return(FALSE, ErrCouldNotClick(target)) EXCEPT !.attempt = n]
                          /\ pc' = "es_return"
    /\ UNCHANGED <<StepFrame, page>>

StudentIdValue == <<"2", "0", "2", "1", "0", "0", "1">>
PasswordValue == <<"1", "2", "3", "4", "5", "6">>
CmdFillStudentId == CmdFindPlaceholderFill(KwStudentId, StudentIdValue)
CmdFillPassword == CmdFindPlaceholderFill(KwPassword, PasswordValue)

\* (mutant) the password is filled whatever the student-id fill did
EsFillCredentialsIdGoesOn ==
    /\ pc = "es_begin" /\ classify(stepText) = "Fill" /\ IsCredentialFill(stepText)
    /\ \E exit \in Exits :
          LET idResult == runAgentBrowserCommand(CmdFillStudentId, Exec(exit, NoOutput))
          IN  /\ log' = Append(log, Issued(CmdFillStudentId, Seen(idResult), si)) /\ out' = Ran(exit)
              /\ es' = es /\ pc' = "es_fill_password"
    /\ UNCHANGED <<StepFrame, page>>

\* lines 249-253: the two-field Fill, the student id
EsFillCredentialsId ==
    /\ pc = "es_begin" /\ classify(stepText) = "Fill" /\ IsCredentialFill(stepText)
    /\ \E exit \in Exits :
          LET idResult == runAgentBrowserCommand(CmdFillStudentId, Exec(exit, NoOutput))
          IN  /\ log' = Append(log, Issued(CmdFillStudentId, Seen(idResult), si)) /\ out' = Ran(exit)
              /\ IF idResult.success
                 THEN es' = es /\ pc' = "es_fill_password"
                 ELSE es' = Return(FALSE, ErrCredentials) /\ pc' = "es_return"
    /\ UNCHANGED <<StepFrame, page>>

\* lines 254-260: the two-field Fill, the password
EsFillCredentialsPassword ==
    /\ pc = "es_fill_password"
    /\ \E exit \in Exits :
          LET pwResult == runAgentBrowserCommand(CmdFillPassword, Exec(exit, NoOutput))
          IN  /\ log' = Append(log, Issued(CmdFillPassword, Seen(pwResult), si)) /\ out' = Ran(exit)
              /\ es' = Return(pwResult.success,
                              IF pwResult.success THEN NoError ELSE ErrCredentials)
    /\ pc' = "es_return"
    /\ UNCHANGED <<StepFrame, page>>

\* (mutant) the attribute selector is tried after the placeholder in any case
EsFillAlwaysFallback ==
    /\ pc = "es_begin" /\ classify(stepText) = "Fill" /\ ~IsCredentialFill(stepText)
    /\ LET input == extractInput(stepText, feature.testData)
           cmd == CmdFindPlaceholderFill(input.field, input.value)
       IN  \E exit \in Exits :
              LET fillResult == runAgentBrowserCommand(cmd, Exec(exit, NoOutput))
              IN  /\ log' = Append(log, Issued(cmd, Seen(fillResult), si)) /\ out' = Ran(exit)
                  /\ es' = es /\ pc' = "es_fill_fallback"
    /\ UNCHANGED <<StepFrame, page>>

\* lines 262-266: the general Fill, by placeholder
EsFill ==
    /\ pc = "es_begin" /\ classify(stepText) = "Fill" /\ ~IsCredentialFill(stepText)
    /\ LET input == extractInput(stepText, feature.testData)
           cmd == CmdFindPlaceholderFill(input.field, input.value)
       IN  \E exit \in Exits :
              LET fillResult == runAgentBrowserCommand(cmd, Exec(exit, NoOutput))
              IN  /\ log' = Append(log, Issued(cmd, Seen(fillResult), si)) /\ out' = Ran(exit)
                  /\ IF fillResult.success
                     THEN es' = Return(TRUE, NoError) /\ pc' = "es_return"
                     ELSE es' = es /\ pc' = "es_fill_fallback"
    /\ UNCHANGED <<StepFrame, page>>

\* lines 268-276: the general Fill, the attribute selector as the fallback
EsFillFallback ==
    /\ pc = "es_fill_fallback"
    /\ LET input == extractInput(stepText, feature.testData)
           cmd == CmdFillSelector(input.field, input.value)
       IN  \E exit \in Exits :
              LET fallbackResult == runAgentBrowserCommand(cmd, Exec(exit, NoOutput))
              IN  /\ log' = Append(log, Issued(cmd, Seen(fallbackResult), si)) /\ out' = Ran(exit)
                  /\ es' = Return(fallbackResult.success,
                                  IF fallbackResult.success THEN NoError
                                  ELSE ErrCouldNotFill(input.field))
    /\ pc' = "es_return"
    /\ UNCHANGED <<StepFrame, page>>

\* what a read gave: "read" when it gave evidence to test, "unavailable" when not
Evidence(usable) == IF usable THEN "read" ELSE "unavailable"

VerifyFailed(passed, target) == IF passed THEN NoError ELSE ErrCouldNotFind(target)

\* lines 281-296: the page settles, then the snapshot is read.  The read of the
\* page text follows only when the snapshot has data that lacks the target
EsVerifySnapshot ==
    /\ pc = "es_begin" /\ classify(stepText) = "Verify"
    /\ \E p \in Pages : \E exec \in SnapshotExecs(p) :
          LET target == verifyTarget(stepText)
              r == runAgentBrowserCommand(CmdSnapshot, exec)
              snap == getSnapshot(r)
              usable == snap.parsed /\ snap.hasData
              passed == usable /\ Includes(SnapshotText(snap.data), target)
          IN  /\ page' = p
              /\ log' = Append(log, Issued(CmdSnapshot, Seen(r), si)) /\ out' = Ran(exec.exit)
              /\ es' = [Return(passed, NoError) EXCEPT !.snapshot = Evidence(usable)]
              /\ pc' = IF passed THEN "es_return"
                       ELSE IF usable THEN "es_verify_text" ELSE "es_verify_url"
    /\ UNCHANGED StepFrame

\* lines 297-302: the text of the page
EsVerifyText ==
    /\ pc = "es_verify_text"
    /\ \E exec \in ReadExecs(page.text) :
          LET target == verifyTarget(stepText)
              textResult == runAgentBrowserCommand(CmdGetText, exec)
              usable == textResult.success /\ OutputTruthy(textResult.output)
              passed == usable /\ Includes(textResult.output.text, target)
          IN  /\ log' = Append(log, Issued(CmdGetText, Seen(textResult), si)) /\ out' = Ran(exec.exit)
              /\ es' = [Return(passed, NoError) EXCEPT !.text = Evidence(usable)]
              /\ pc' = IF passed THEN "es_return" ELSE "es_verify_url"
    /\ UNCHANGED <<StepFrame, page>>

\* lines 305-324: the current URL, against the path of the target
EsVerifyUrl ==
    /\ pc = "es_verify_url"
    /\ \E exec \in ReadExecs(page.url) :
          LET target == verifyTarget(stepText)
              currentUrl == runAgentBrowserCommand(CmdUrl, exec)
              usable == currentUrl.success /\ OutputTruthy(currentUrl.output)
              passed == usable /\ Includes(currentUrl.output.text, RouteOf(target))
          IN  /\ log' = Append(log, Issued(CmdUrl, Seen(currentUrl), si)) /\ out' = Ran(exec.exit)
              /\ es' = [Return(passed, VerifyFailed(passed, target)) EXCEPT
                           !.url = Evidence(usable)]
    /\ pc' = "es_return"
    /\ UNCHANGED <<StepFrame, page>>

CmdClickLogin == CmdFindRoleButtonClick(KwLogin)

\* lines 328-331: Login, the student id
EsLoginId ==
    /\ pc = "es_begin" /\ classify(stepText) = "Login"
    /\ \E exit \in Exits :
          LET idResult == runAgentBrowserCommand(CmdFillStudentId, Exec(exit, NoOutput))
          IN  /\ log' = Append(log, Issued(CmdFillStudentId, Seen(idResult), si)) /\ out' = Ran(exit)
              /\ IF idResult.success
                 THEN es' = es /\ pc' = "es_login_password"
                 ELSE es' = Return(FALSE, ErrLogin) /\ pc' = "es_return"
    /\ UNCHANGED <<StepFrame, page>>

\* lines 334-337: Login, the password
EsLoginPassword ==
    /\ pc = "es_login_password"
    /\ \E exit \in Exits :
          LET pwResult == runAgentBrowserCommand(CmdFillPassword, Exec(exit, NoOutput))
          IN  /\ log' = Append(log, Issued(CmdFillPassword, Seen(pwResult), si)) /\ out' = Ran(exit)
              /\ IF pwResult.success
                 THEN es' = es /\ pc' = "es_login_click"
                 ELSE es' = Return(FALSE, ErrLogin) /\ pc' = "es_return"
    /\ UNCHANGED <<StepFrame, page>>

\* (mutant) the step passes once both fields are filled, whatever the click did
EsLoginClickNotRead ==
    /\ pc = "es_login_click"
    /\ \E exit \in Exits :
          LET loginResult == runAgentBrowserCommand(CmdClickLogin, Exec(exit, NoOutput))
          IN  /\ log' = Append(log, Issued(CmdClickLogin, Seen(loginResult), si)) /\ out' = Ran(exit)
              /\ es' = Return(TRUE, NoError)
    /\ pc' = "es_return"
    /\ UNCHANGED <<StepFrame, page>>

\* lines 339-347: Login, the click on the login button
EsLoginClick ==
    /\ pc = "es_login_click"
    /\ \E exit \in Exits :
          LET loginResult == runAgentBrowserCommand(CmdClickLogin, Exec(exit, NoOutput))
          IN  /\ log' = Append(log, Issued(CmdClickLogin, Seen(loginResult), si)) /\ out' = Ran(exit)
              /\ es' = Return(loginResult.success,
                              IF loginResult.success THEN NoError ELSE ErrLogin)
    /\ pc' = "es_return"
    /\ UNCHANGED <<StepFrame, page>>

\* lines 351-356
EsWait ==
    /\ pc = "es_begin" /\ classify(stepText) = "Wait"
    /\ es' = [Return(TRUE, NoError) EXCEPT !.ms = waitMs(stepText)]
    /\ pc' = "es_return"
    /\ UNCHANGED <<StepFrame, out, page, log>>

\* lines 359-362
EsDefault ==
    /\ pc = "es_begin" /\ classify(stepText) = "Default"
    /\ es' = Return(TRUE, NoError)
    /\ pc' = "es_return"
    /\ UNCHANGED <<StepFrame, out, page, log>>


\* ------------------------------------------------------------ runAllTests
RunVarsNoText == <<results, openResult, si, es, snapshot, page, log>>
RunVars == <<RunVarsNoText, txt, out>>

\* (mutant) only the features the loop would have run are counted as failed
NotInstalledSummaryOfIncluded(fs, opts) ==
    LET n == Len(SelectSeq(fs, LAMBDA f : f.passes \/ opts.testAll))
    IN  [total |-> n, passed |-> 0, failed |-> n, results |-> <<>>, error |-> ErrNotInstalled]

\* lines 441-447: what runAllTests returns when the dependency is not there
NotInstalledSummary(fs, opts) ==
    [total |-> Len(fs), passed |-> 0, failed |-> Len(fs), results |-> <<>>,
     error |-> ErrNotInstalled]

\* lines 440-453: the dependency is checked once, before the loop
RunAllEnsure ==
    /\ entry = "runAllTests" /\ pc = "ra_ensure"
    /\ \E whichOk, npmOk, installOk \in BOOLEAN :
          IF ensureAgentBrowserInstalled(whichOk, npmOk, installOk)
          THEN pc' = "ra_loop" /\ summary' = summary
          ELSE /\ pc' = "ra_done"
               /\ summary' = NotInstalledSummary(features, options)
    /\ UNCHANGED <<entry, features, options, fi, batch, RunVars>>

\* (mutant) the inclusion test is dropped: every feature is run
IncludedAlways(f, opts) == TRUE

\* feature.passes || options.testAll
Included(f, opts) == f.passes \/ opts.testAll

\* lines 455-457: the loop reaches an included feature and calls runFeatureTest
RunAllCall ==
    /\ pc = "ra_loop" /\ fi <= Len(features)
    /\ Included(feature, options)
    /\ pc' = "ft_check"
    /\ UNCHANGED <<entry, features, options, fi, batch, summary, RunVars>>

\* line 456: a feature that is not included is passed over
RunAllSkip ==
    /\ pc = "ra_loop" /\ fi <= Len(features)
    /\ ~Included(feature, options)
    /\ fi' = fi + 1
    /\ UNCHANGED <<entry, features, options, pc, batch, summary, RunVars>>

\* (mutant) a failed run ends the loop: the features after it are not run
RunAllCollectStopsOnFailure ==
    /\ entry = "runAllTests" /\ pc = "ft_return"
    /\ batch' = [results |-> Append(batch.results, results),
                 passed |-> IF results.passed THEN batch.passed + 1 ELSE batch.passed,
                 failed |-> IF results.passed THEN batch.failed ELSE batch.failed + 1]
    /\ fi' = IF results.passed THEN fi + 1 ELSE Len(features) + 1
    /\ pc' = "ra_loop"
    /\ UNCHANGED <<entry, features, options, summary, RunVars>>

\* (mutant) a result that did not pass is pushed but not counted
RunAllCollectPassedOnly ==
    /\ entry = "runAllTests" /\ pc = "ft_return"
    /\ batch' = [results |-> Append(batch.results, results),
                 passed |-> IF results.passed THEN batch.passed + 1 ELSE batch.passed,
                 failed |-> batch.failed]
    /\ fi' = fi + 1
    /\ pc' = "ra_loop"
    /\ UNCHANGED <<entry, features, options, summary, RunVars>>

\* lines 457-466: runFeatureTest has returned; its result is pushed and counted
RunAllCollect ==
    /\ entry = "runAllTests" /\ pc = "ft_return"
    /\ batch' = [results |-> Append(batch.results, results),
                 passed |-> IF results.passed THEN batch.passed + 1 ELSE batch.passed,
                 failed |-> IF results.passed THEN batch.failed ELSE batch.failed + 1]
    /\ fi' = fi + 1
    /\ pc' = "ra_loop"
    /\ UNCHANGED <<entry, features, options, summary, RunVars>>

\* lines 470-483: the loop is over, the summary is returned
RunAllReturn ==
    /\ pc = "ra_loop" /\ fi > Len(features)
    /\ summary' = [total |-> batch.passed + batch.failed, passed |-> batch.passed,
                   failed |-> batch.failed, results |-> batch.results, error |-> NoError]
    /\ pc' = "ra_done"
    /\ UNCHANGED <<entry, features, options, fi, batch, RunVars>>

\* ---------------------------------------------------------- specification
Next ==
    \/ FtCheckDependency
    \/ FtOpen
    \/ FtRetryClose
    \/ FtRetryOpen
    \/ FtCallExecuteStep
    \/ FtStepThrows
    \/ FtLoopEnd
    \/ FtGenericValidation
    \/ FtStepResult
    \/ FtScreenshot
    \/ FtFinally
    \/ FtReturn
    \/ EsNavigate
    \/ EsClick
    \/ EsFillCredentialsId
    \/ EsFillCredentialsPassword
    \/ EsFill
    \/ EsFillFallback
    \/ EsVerifySnapshot
    \/ EsVerifyText
    \/ EsVerifyUrl
    \/ EsLoginId
    \/ EsLoginPassword
    \/ EsLoginClick
    \/ EsWait
    \/ EsDefault
    \/ RunAllEnsure
    \/ RunAllCall
    \/ RunAllSkip
    \/ RunAllCollect
    \/ RunAllReturn

Spec == Init /\ [][Next]_vars


\* ------------------------------------------- the text helpers on their own
\* the pieces a step text is written with
Pieces ==
    {KwOpen, KwEnter, KwVisit, KwClick, KwInput, KwFillIn, KwVerify, KwCheck, KwConfirm,
     KwLogin, KwWait, LabelLoginPage, LabelCourseList, <<"U63D0", "U4EA4">>, <<" ">>}

\* the step texts: up to MaxPieces pieces, one after the other
Texts == {Concat(q) : q \in SeqsUpTo(Pieces, MaxPieces)}

\* the pieces of the step texts given to extractTarget
HttpAddress  == <<"h", "t", "t", "p", ":", "/", "/", "a">>
HttpsAddress == <<"h", "t", "t", "p", "s", ":", "/", "/", "x", ".", "t", "e", "s", "t", "/", "y">>
QuotedLoginPage == <<"\"">> \o LabelLoginPage \o <<"\"">>       \* "登录页"
CornerQuotedCourseList == <<"U300C">> \o LabelCourseList \o <<"U300D">> \* 「课程列表」
TargetPieces ==
    {KwOpen, KwEnter, KwVisit, KwClick, LabelLoginPage, LabelCourseList, LabelSchedule,
     LabelProfile, LabelSelected, HttpAddress, HttpsAddress, <<"U63D0", "U4EA4">>,
     <<" ">>, <<"\"">>, QuotedLoginPage, CornerQuotedCourseList}
TargetTexts == {Concat(q) : q \in SeqsUpTo(TargetPieces, MaxPieces)}

\* the pieces of the step texts given to extractInput, and the testData of
\* the feature given with them
InputPieces == {KwInput, KwFillIn, KwIn, KwInInput, <<" ">>, <<"a">>, <<"b">>}
InputTexts == {Concat(q) : q \in SeqsUpTo(InputPieces, MaxInputPieces)}
SomeTestData == [has |-> TRUE, field |-> <<"f">>, value |-> <<"v">>]
\* the step texts of the calls that are given no feature
ShortInputTexts == {Concat(q) : q \in SeqsUpTo(InputPieces, MaxPieces + 1)}

\* one call of a text helper: executeStep's classifier, extractTarget(step) or
\* extractInput(step, feature)
InitText ==
    /\ pc = "tx_call"
    /\ InitCommon
    /\ options = Options(FALSE, FALSE)
    /\ \/ entry = "executeStep" /\ txt \in Texts /\ features = <<>>
       \/ entry = "extractTarget" /\ txt \in TargetTexts /\ features = <<>>
       \/ /\ entry = "extractInput" /\ txt \in InputTexts
          /\ \E testData \in {NoTestData, SomeTestData} :
                features = <<[Feature(FeatureIds[1], FALSE, TRUE, <<Str(txt)>>)
                                 EXCEPT !.testData = testData]>>
       \/ entry = "extractInput(step)" /\ txt \in ShortInputTexts /\ features = <<>>

TextFrame == <<entry, features, options, fi, batch, summary, RunVarsNoText, txt>>

\* the if / else-if chain of executeStep picks the branch of the step
TxClassify ==
    /\ entry = "executeStep" /\ pc = "tx_call"
    /\ out' = [op |-> "classify", kind |-> classify(txt)]
    /\ pc' = "tx_done"
    /\ UNCHANGED TextFrame

\* lines 212-213: extractTarget(step), and the address Navigate opens for it
TxExtractTarget ==
    /\ entry = "extractTarget" /\ pc = "tx_call"
    /\ out' = [op |-> "extractTarget", target |-> extractTarget(txt),
               url |-> NavigateUrl(extractTarget(txt), BaseUrlOf(options))]
    /\ pc' = "tx_done"
    /\ UNCHANGED TextFrame

\* line 262: extractInput(step, feature)
TxExtractInput ==
    /\ entry = "extractInput" /\ pc = "tx_call"
    /\ out' = [op |-> "extractInput", input |-> extractInput(txt, feature.testData)]
    /\ pc' = "tx_done"
    /\ UNCHANGED TextFrame

\* extractInput(step): the call without a feature
TxExtractInputNoFeature ==
    /\ entry = "extractInput(step)" /\ pc = "tx_call"
    /\ LET call == extractInputCall(txt, features)
       IN  out' = [op |-> "extractInput(step)", threw |-> call.threw, input |-> call.input]
    /\ pc' = "tx_done"
    /\ UNCHANGED TextFrame

NextText ==
    \/ TxClassify
    \/ TxExtractTarget
    \/ TxExtractInput
    \/ TxExtractInputNoFeature

SpecText == InitText /\ [][NextText]_vars



\* ------------------------------------------------------- utils.ts: values
\* a string field that is not there (undefined), and the values null, NaN,
\* undefined and n of a place that holds a number
Absent == "undefined"
Null == [kind |-> "null"]
NotANumber == [kind |-> "NaN"]
Undefined == [kind |-> "undefined"]
Num(n) == [kind |-> "number", value |-> n]

\* the members every object literal inherits from Object.prototype: a lookup
\* obj[name] with one of these names gives a function, not undefined
InheritedNames == {"constructor"}

\* new Date().toISOString()
Now == "2026-01-01T00:00:00.000Z"

\* a Feature of features.json
UFeature(id, priority, category, passes, attempts, notes) ==
    [id |-> id, category |-> category, priority |-> priority, description |-> id,
     status |-> IF passes THEN "completed" ELSE "pending", passes |-> passes,
     attempts |-> attempts, notes |-> notes,
     completed_at |-> IF passes THEN Now ELSE Absent]

\* a string is truthy when it is there and not empty
Truthy(v) == v # Absent /\ v # ""

\* ------------------------------------------- utils.ts: getNextPendingFeature
\* const priorityOrder = { critical: 0, high: 1, medium: 2, low: 3 }
priorityOrder == [critical |-> 0, high |-> 1, medium |-> 2, low |-> 3]

\* priorityOrder[f.priority] ?? 2: an own key gives its number, an inherited
\* name gives the inherited function (which is not nullish and stays), and
\* anything else is undefined and becomes 2
PriorityNumber(f) ==
    IF f.priority \in DOMAIN priorityOrder THEN Num(priorityOrder[f.priority])
    ELSE IF f.priority \in InheritedNames THEN [kind |-> "function"]
    ELSE Num(2)

\* the comparator: pa - pb, NaN when an operand is no number
comparePriority(a, b) ==
    IF PriorityNumber(a).kind = "number" /\ PriorityNumber(b).kind = "number"
    THEN Num(PriorityNumber(a).value - PriorityNumber(b).value)
    ELSE NotANumber

\* what Array.prototype.sort makes of the comparator's value: NaN counts as 0
SortCompare(a, b) ==
    IF comparePriority(a, b) = NotANumber THEN 0 ELSE comparePriority(a, b).value

\* the comparator is consistent on the list (ECMAScript, Array.prototype.sort)
ConsistentComparator(list) ==
    \A i, j, k \in 1..Len(list) :
        LET ab == SortCompare(list[i], list[j])
            bc == SortCompare(list[j], list[k])
            ac == SortCompare(list[i], list[k])
        IN  /\ ab = 0 /\ bc = 0 => ac = 0
            /\ ab < 0 /\ bc <= 0 => ac < 0
            /\ ab <= 0 /\ bc < 0 => ac < 0

\* the orders in which the elements of the list can be arranged
Arrangements(list) ==
    {p \in [1..Len(list) -> 1..Len(list)] : \A i, j \in 1..Len(list) : p[i] = p[j] => i = j}

\* list.sort(comparePriority): the stable sorted order when the comparator is
\* consistent; with a comparator that is not, the order is left to the engine
Sorted(list) ==
    {[i \in 1..Len(list) |-> list[p[i]]] : p \in
        {q \in Arrangements(list) :
            ConsistentComparator(list) =>
                \A i, j \in 1..Len(list) :
                    i < j => \/ SortCompare(list[q[i]], list[q[j]]) < 0
                             \/ SortCompare(list[q[i]], list[q[j]]) = 0 /\ q[i] < q[j]}}

\* features.filter(f => !f.passes)
Pending(fs) == SelectSeq(fs, LAMBDA f : ~f.passes)

\* utils.ts 43-55; sorted is pending after pending.sort(...)
getNextPendingFeature(fs, sorted) == IF Pending(fs) = <<>> THEN Null ELSE sorted[1]

\* ------------------------------------------------- utils.ts: updateMetadata
\* f.priority || 'medium' and f.category || 'functional'
PriorityKey(f) == IF Truthy(f.priority) THEN f.priority ELSE "medium"
CategoryKey(f) == IF Truthy(f.category) THEN f.category ELSE "functional"

\* the loop of lines 16-28 for one of the two tables: table[k] = table[k] ||
\* {total: 0, completed: 0}, total++, completed++ when f.passes. For an
\* inherited name table[k] is the inherited function: the || keeps it, and the
\* ++ of its total (undefined before) gives NaN, as does that of its completed
GroupStats(fs, Key(_)) ==
    LET Of(k) == SelectSeq(fs, LAMBDA f : Key(f) = k)
        Done(k) == SelectSeq(fs, LAMBDA f : Key(f) = k /\ f.passes)
    IN  [k \in {Key(fs[i]) : i \in 1..Len(fs)} |->
            IF k \in InheritedNames
            THEN [total |-> NotANumber,
                  completed |-> IF Done(k) # <<>> THEN NotANumber ELSE Undefined]
            ELSE [total |-> Num(Len(Of(k))), completed |-> Num(Len(Done(k)))]]

\* Math.round(completed / total * 100 * 100) / 100, in hundredths of a percent
\* (66.67 is 6667): Math.round rounds a half up
Percentage(completed, total) ==
    IF total > 0 THEN (2 * completed * 10000 + total) \div (2 * total) ELSE 0

\* utils.ts 10-38
updateMetadata(fs) ==
    [total_features |-> Len(fs),
     completed_features |-> Len(SelectSeq(fs, LAMBDA f : f.passes)),
     completion_percentage |-> Percentage(Len(SelectSeq(fs, LAMBDA f : f.passes)), Len(fs)),
     by_priority |-> GroupStats(fs, PriorityKey),
     by_category |-> GroupStats(fs, CategoryKey)]

\* -------------------------------------------- utils.ts: markFeatureComplete
\* (mutant) the notes of the call always replace the notes of the feature
markFeatureCompleteNewNotes(f, notes) ==
    [f EXCEPT !.passes = TRUE, !.status = "completed", !.completed_at = Now,
              !.attempts = @ + 1, !.notes = notes]

\* utils.ts 150-162: a copy of the feature with the five fields set
markFeatureComplete(f, notes) ==
    [f EXCEPT !.passes = TRUE, !.status = "completed", !.completed_at = Now,
              !.attempts = @ + 1,
              !.notes = IF Truthy(notes) THEN notes ELSE f.notes]

\* ------------------------------------------------ the utils.ts functions
\* the features given to getNextPendingFeature: any priority (one of the four,
\* another word, an inherited name, none), pending or completed
NextPriorities == {"critical", "high", "medium", "low", "urgent", "constructor", Absent}
NextFeatureLists ==
    UNION {{[i \in 1..n |-> UFeature(FeatureIds[i], priority[i], "functional", passes[i], 0, "")] :
              priority \in [1..n -> NextPriorities], passes \in [1..n -> BOOLEAN]} :
           n \in 0..MaxFeatures}

\* the features given to updateMetadata
GroupPriorities == {"critical", "constructor", Absent}
GroupCategories == {"ui", "constructor", Absent}
GroupFeatureLists ==
    UNION {{[i \in 1..n |-> UFeature(FeatureIds[i], priority[i], category[i], passes[i], 0, "")] :
              priority \in [1..n -> GroupPriorities], category \in [1..n -> GroupCategories],
              passes \in [1..n -> BOOLEAN]} :
           n \in 0..MaxFeatures}

\* the feature and the notes given to markFeatureComplete
ExistingNotes == {"", "Existing note"}
GivenNotes == {Absent, "", "Done successfully"}

InitUtils ==
    /\ pc = "ut_call"
    /\ InitCommon
    /\ txt = <<>>
    /\ \/ /\ entry = "getNextPendingFeature" /\ features \in NextFeatureLists
          /\ options = Options(FALSE, FALSE)
       \/ /\ entry = "updateMetadata" /\ features \in GroupFeatureLists
          /\ options = Options(FALSE, FALSE)
       \/ /\ entry = "markFeatureComplete"
          /\ \E passes \in BOOLEAN, attempts \in 0..MaxAttempts, notes \in ExistingNotes :
                features = <<UFeature(FeatureIds[1], "high", "ui", passes, attempts, notes)>>
          /\ \E notes \in GivenNotes : options = [notes |-> notes]

\* utils.ts 43-55
UtGetNextPendingFeature ==
    /\ entry = "getNextPendingFeature" /\ pc = "ut_call"
    /\ \E sorted \in Sorted(Pending(features)) :
          out' = [op |-> "getNextPendingFeature",
                  result |-> getNextPendingFeature(features, sorted)]
    /\ pc' = "ut_done"
    /\ UNCHANGED TextFrame

\* utils.ts 10-38
UtUpdateMetadata ==
    /\ entry = "updateMetadata" /\ pc = "ut_call"
    /\ out' = [op |-> "updateMetadata", result |-> updateMetadata(features)]
    /\ pc' = "ut_done"
    /\ UNCHANGED TextFrame

\* utils.ts 150-162: the feature given is not written to
UtMarkFeatureComplete ==
    /\ entry = "markFeatureComplete" /\ pc = "ut_call"
    /\ out' = [op |-> "markFeatureComplete",
               result |-> markFeatureComplete(features[1], options.notes)]
    /\ pc' = "ut_done"
    /\ UNCHANGED TextFrame

NextUtils ==
    \/ UtGetNextPendingFeature
    \/ UtUpdateMetadata
    \/ UtMarkFeatureComplete

SpecUtils == InitUtils /\ [][NextUtils]_vars


\* ------------------------------------------------ the commands of the CLI
\* index.ts (commands): features is data.features of .agent/features.json,
\* summary is data.metadata as writeFeatures sets it, si counts the commands
\* run, out is what the last command did

\* String(n) of a non-negative integer: its decimal digits
RECURSIVE String(_)
String(n) ==
    IF n < 10 THEN <<Digits[n + 1]>>
    ELSE String(n \div 10) \o <<Digits[(n % 10) + 1]>>

\* s.padStart(len, fill) with a fill of one character: fill is put in front
\* until the string has len characters; a longer string is left as it is
RECURSIVE padStart(_, _, _)
padStart(s, len, fill) ==
    IF Len(s) >= len THEN s ELSE padStart(<<fill>> \o s, len, fill)

\* utils.ts 60-62: `feat-${String(index).padStart(3, '0')}`
generateFeatureId(index) == <<"feat-">> \o padStart(String(index), 3, "0")

\* (mutant) the number is not padded
CliFeatureIdUnpadded(n) == <<"feat-">> \o String(n)

\* index.ts 538: `feat-${String(n).padStart(3, '0')}`
CliFeatureId(n) == <<"feat-">> \o padStart(String(n), 3, "0")

\* the feature addFeature builds (lines 540-552)
CliFeature(id, description, priority, category) ==
    [UFeature(id, priority, category, FALSE, 0, "") EXCEPT !.description = description]

\* what the user gives the commands
Descriptions == {"User login", "User logout"}
CliPriorities == {"medium", "constructor"}
CliNotes == {Absent, "Done successfully"}
FeaturesFile == ".agent/features.json"
OutputFiles == {Absent, "export.json", FeaturesFile}

InitCli ==
    /\ entry = "cli"
    /\ pc = "cli_ready"
    /\ InitCommon
    /\ txt = <<>>
    /\ options = Options(FALSE, FALSE)
    /\ features = <<>>

CliFrame == <<entry, options, pc, fi, batch, results, openResult, es, snapshot, page, log, txt>>

\* one more command is run
CliCommand == entry = "cli" /\ pc = "cli_ready" /\ si < MaxCommands /\ si' = si + 1

\* a command that does not write features.json
CliReadOnly == UNCHANGED <<features, summary, CliFrame>>

\* JSON.stringify leaves out the properties whose value is a function: the
\* entry of a table under an inherited name is the inherited function
JsonGroups(table) == [k \in {x \in DOMAIN table : x \notin InheritedNames} |-> table[k]]

\* writeFeatures (lines 299-303): the metadata of the list, as the file keeps it
writeFeatures(fs) ==
    [updateMetadata(fs) EXCEPT !.by_priority = JsonGroups(@), !.by_category = JsonGroups(@)]

\* addFeature (lines 530-558), with writeFeatures (299-303)
CliAdd ==
    /\ CliCommand
    /\ \E description \in Descriptions, priority \in CliPriorities :
          LET newId == CliFeatureId(Len(features) + 1)
          IN  /\ features' = Append(features,
                                    CliFeature(newId, description, priority, "functional"))
              /\ out' = [op |-> "add", id |-> newId]
    /\ summary' = writeFeatures(features')
    /\ UNCHANGED CliFrame

\* (mutant) done flips passes instead of setting it
CliDoneFlips ==
    /\ CliCommand
    /\ \E featureId \in {CliFeatureId(n) : n \in 1..(Len(features) + 1)}, notes \in CliNotes :
          IF \E i \in 1..Len(features) : features[i].id = featureId
          THEN LET i == CHOOSE j \in 1..Len(features) : features[j].id = featureId
               IN  /\ features' = [features EXCEPT ![i] =
                                      [@ EXCEPT !.passes = ~@, !.status = "completed",
                                                !.completed_at = Now, !.attempts = @ + 1,
                                                !.notes = IF Truthy(notes) THEN notes ELSE @]]
                   /\ summary' = writeFeatures(features')
                   /\ out' = [op |-> "done", id |-> featureId]
          ELSE /\ UNCHANGED <<features, summary>>
               /\ out' = [op |-> "done: not found", id |-> featureId, exit |-> 1]
    /\ UNCHANGED CliFrame

\* (mutant) an id that is not in the list completes the first feature
CliDoneUnknownCompletesFirst ==
    /\ CliCommand
    /\ \E featureId \in {CliFeatureId(n) : n \in 1..(Len(features) + 1)}, notes \in CliNotes :
          LET found == \E i \in 1..Len(features) : features[i].id = featureId
              i == IF found
                   THEN CHOOSE j \in 1..Len(features) :
                           /\ features[j].id = featureId
                           /\ \A k \in 1..(j - 1) : features[k].id # featureId
                   ELSE 1
          IN  IF features # <<>>
              THEN /\ features' = [features EXCEPT ![i] =
                                      [@ EXCEPT !.passes = TRUE, !.status = "completed",
                                                !.completed_at = Now, !.attempts = @ + 1,
                                                !.notes = IF Truthy(notes) THEN notes ELSE @]]
                   /\ summary' = writeFeatures(features')
                   /\ out' = IF found THEN [op |-> "done", id |-> featureId]
                             ELSE [op |-> "done: not found", id |-> featureId, exit |-> 1]
              ELSE /\ UNCHANGED <<features, summary>>
                   /\ out' = [op |-> "done: not found", id |-> featureId, exit |-> 1]
    /\ UNCHANGED CliFrame

\* markDone (lines 612-638): the first feature with the id is completed; an id
\* that is not in the list ends the command before anything is written
CliDone ==
    /\ CliCommand
    /\ \E featureId \in {CliFeatureId(n) : n \in 1..(Len(features) + 1)}, notes \in CliNotes :
          IF \E i \in 1..Len(features) : features[i].id = featureId
          THEN LET i == CHOOSE j \in 1..Len(features) :
                            /\ features[j].id = featureId
                            /\ \A k \in 1..(j - 1) : features[k].id # featureId
               IN  /\ features' = [features EXCEPT ![i] =
                                      [@ EXCEPT !.passes = TRUE, !.status = "completed",
                                                !.completed_at = Now, !.attempts = @ + 1,
                                                !.notes = IF Truthy(notes) THEN notes ELSE @]]
                   /\ summary' = writeFeatures(features')
                   /\ out' = [op |-> "done", id |-> featureId]
          ELSE /\ UNCHANGED <<features, summary>>
               /\ out' = [op |-> "done: not found", id |-> featureId, exit |-> 1]
    /\ UNCHANGED CliFrame

\* getNextFeature (lines 563-592)
CliNext ==
    /\ CliCommand
    /\ \E sorted \in Sorted(Pending(features)) :
          out' = [op |-> "next", id |-> IF Pending(features) = <<>> THEN Null ELSE sorted[1].id]
    /\ CliReadOnly

\* showStatus (lines 475-525)
CliStatus ==
    /\ CliCommand
    /\ \E sorted \in Sorted(Pending(features)) :
          out' = [op |-> "status", id |-> IF Pending(features) = <<>> THEN Null ELSE sorted[1].id]
    /\ CliReadOnly

\* listFeatures (lines 686-718)
CliList ==
    /\ CliCommand
    /\ \E filter \in {"all", "pending", "done"} :
          out' = [op |-> "list",
                  count |-> Len(SelectSeq(features, LAMBDA f :
                            \/ filter = "all"
                            \/ filter = "pending" /\ ~f.passes
                            \/ filter = "done" /\ f.passes))]
    /\ CliReadOnly

\* commitProgress (lines 643-681): git add -A and git commit
CliCommit ==
    /\ CliCommand
    /\ \E committed \in BOOLEAN : out' = [op |-> "commit", committed |-> committed]
    /\ CliReadOnly

\* exportProject (lines 723-734): the data read is written to the output
\* file, which may be features.json itself
CliExport ==
    /\ CliCommand
    /\ \E output \in OutputFiles :
          /\ out' = [op |-> "export", output |-> output]
          /\ features' = features
    /\ UNCHANGED <<summary, CliFrame>>

NextCli ==
    \/ CliAdd
    \/ CliDone
    \/ CliNext
    \/ CliStatus
    \/ CliList
    \/ CliCommit
    \/ CliExport

SpecCli == InitCli /\ [][NextCli]_vars


\* ------------------------------------------ the deferred variant (e2e.js)
\* runFeatureTest and runAllTests of src/src/e2e.js: the session is opened and
\* the steps are left to the caller. passed is true, false or null, written
\* "true", "false", "null".
NoDeferredResult ==
    [featureId |-> "", description |-> "", steps |-> <<>>, passed |-> "false",
     error |-> NoError, screenshots |-> <<>>, message |-> ""]

\* lines 144-151: the result of a run without the dependency
DeferredNotInstalled(f) ==
    [featureId |-> f.id, description |-> f.description, steps |-> <<>>, passed |-> "false",
     error |-> ErrNotInstalled, screenshots |-> <<>>, message |-> ""]

\* lines 155-169: const results = { ..., steps: feature.steps || [], passed: false, ... }
DeferredResults(f) ==
    [featureId |-> f.id, description |-> f.description,
     steps |-> IF f.hasSteps THEN f.steps ELSE <<>>, passed |-> "false",
     error |-> NoError, screenshots |-> <<>>, message |-> ""]

MsgBrowserOpened == "Browser opened. AI should execute test steps using agent-browser commands."

DeferredCommon ==
    /\ fi = 1
    /\ batch = [results |-> <<>>, passed |-> 0, failed |-> 0]
    /\ summary = NoSummary
    /\ results = NoDeferredResult
    /\ openResult = NoResult
    /\ si = 0
    /\ es = NoStep
    /\ snapshot = NullSnapshot
    /\ page = BlankPage
    /\ log = <<>>
    /\ out = NoOut
    /\ txt = <<>>

\* a direct call runFeatureTest(feature, options) of e2e.js
InitDeferredFeatureTest ==
    /\ entry = "e2e.js runFeatureTest"
    /\ pc = "df_check"
    /\ \E hasSteps \in BOOLEAN, steps \in BatchStepLists :
          /\ (~hasSteps => steps = <<>>)
          /\ features = <<Feature(FeatureIds[1], FALSE, hasSteps, steps)>>
    /\ \E headless \in BOOLEAN : options = Options(FALSE, headless)

\* a call runAllTests(features, options) of e2e.js
InitDeferredAllTests ==
    /\ entry = "e2e.js runAllTests"
    /\ pc = "da_ensure"
    /\ \E n \in 0..MaxFeatures :
          \E passes \in [1..n -> BOOLEAN], steps \in [1..n -> BatchStepLists] :
             features = [i \in 1..n |-> Feature(FeatureIds[i], passes[i], TRUE, steps[i])]
    /\ \E testAll \in BOOLEAN : options = Options(testAll, FALSE)

InitDeferred == DeferredCommon /\ (InitDeferredFeatureTest \/ InitDeferredAllTests)

DeferredFrame == <<entry, features, options, fi, batch, summary, si, es, snapshot, page, txt>>

\* lines 142-169: the dependency check and the initial results object
DfCheckDependency ==
    /\ pc = "df_check"
    /\ \E whichOk, whichAgain, npmOk, installOk \in BOOLEAN :
          IF whichOk \/ ensureAgentBrowserInstalled(whichAgain, npmOk, installOk)
          THEN results' = DeferredResults(feature) /\ pc' = "df_open"
          ELSE results' = DeferredNotInstalled(feature) /\ pc' = "df_return"
    /\ openResult' = NoResult
    /\ UNCHANGED <<DeferredFrame, log, out>>

\* line 175: the first open
DfOpen ==
    /\ pc = "df_open"
    /\ \E exit \in Exits :
          LET r == runAgentBrowserCommand(CmdOpenSession(options), Exec(exit, NoOutput))
          IN  /\ openResult' = r
              /\ log' = Append(log, Issued(CmdOpenSession(options), Seen(r), 0))
              /\ out' = Ran(exit)
              /\ pc' = IF r.success THEN "df_opened" ELSE "df_retry_close"
    /\ UNCHANGED <<DeferredFrame, results>>

\* line 179: the close before the retry; its result is dropped
DfRetryClose ==
    /\ pc = "df_retry_close"
    /\ \E exit \in Exits :
          log' = Append(log, Issued(CmdClose, "ignored", 0)) /\ out' = Ran(exit)
    /\ pc' = "df_retry_open"
    /\ UNCHANGED <<DeferredFrame, results, openResult>>

\* lines 180-185 and 214-218: the one retry; a second failure is thrown into
\* the catch block
DfRetryOpen ==
    /\ pc = "df_retry_open"
    /\ \E exit \in Exits :
          LET r == runAgentBrowserCommand(CmdOpenSession(options), Exec(exit, NoOutput))
          IN  /\ openResult' = r
              /\ log' = Append(log, Issued(CmdOpenSession(options), Seen(r), 0))
              /\ out' = Ran(exit)
              /\ IF r.success
                 THEN pc' = "df_opened" /\ results' = results
                 ELSE /\ pc' = "df_return"
                      /\ results' = [results EXCEPT !.passed = "false",
                                                    !.error = ErrOpen(r.error)]
    /\ UNCHANGED DeferredFrame

\* (mutant) the close of line 221 is not commented out
DfOpenedThenClose ==
    /\ pc = "df_opened"
    /\ results' = [results EXCEPT !.passed = "null", !.message = MsgBrowserOpened]
    /\ \E exit \in Exits :
          log' = Append(log, Issued(CmdClose, "ignored", 0)) /\ out' = Ran(exit)
    /\ pc' = "df_return"
    /\ UNCHANGED <<DeferredFrame, openResult>>

\* lines 187-212: the session is open; the steps are printed, not executed, and
\* the result is handed to the caller with passed = null. No close: line 221 is
\* commented out.
DfOpened ==
    /\ pc = "df_opened"
    /\ results' = [results EXCEPT !.passed = "null", !.message = MsgBrowserOpened]
    /\ pc' = "df_return"
    /\ UNCHANGED <<DeferredFrame, openResult, log, out>>

\* line 223: a direct call returns results to its caller
DfReturn ==
    /\ entry = "e2e.js runFeatureTest"
    /\ pc = "df_return"
    /\ pc' = "done"
    /\ UNCHANGED <<DeferredFrame, results, openResult, log, out>>

\* lines 293-302: the dependency is checked once, before the loop; without it
\* the batch returns at once
DaEnsure ==
    /\ entry = "e2e.js runAllTests" /\ pc = "da_ensure"
    /\ \E whichOk, npmOk, installOk \in BOOLEAN :
          IF ensureAgentBrowserInstalled(whichOk, npmOk, installOk)
          THEN pc' = "da_loop" /\ summary' = summary
          ELSE /\ pc' = "da_done"
               /\ summary' = NotInstalledSummary(features, options)
    /\ UNCHANGED <<entry, features, options, fi, batch, RunVars>>

\* lines 308-310: the loop reaches an included feature and calls runFeatureTest
DaCall ==
    /\ pc = "da_loop" /\ fi <= Len(features)
    /\ Included(feature, options)
    /\ pc' = "df_check"
    /\ UNCHANGED <<entry, features, options, fi, batch, summary, RunVars>>

\* line 309: a feature that is not included is passed over
DaSkip ==
    /\ pc = "da_loop" /\ fi <= Len(features)
    /\ ~Included(feature, options)
    /\ fi' = fi + 1
    /\ UNCHANGED <<entry, features, options, pc, batch, summary, RunVars>>

\* (mutant) if (result.passed) passed++; else failed++
DaCollectTruthy ==
    /\ entry = "e2e.js runAllTests" /\ pc = "df_return"
    /\ batch' = [results |-> Append(batch.results, results),
                 passed |-> IF results.passed = "true" THEN batch.passed + 1 ELSE batch.passed,
                 failed |-> IF results.passed = "true" THEN batch.failed ELSE batch.failed + 1]
    /\ fi' = fi + 1
    /\ pc' = "da_loop"
    /\ UNCHANGED <<entry, features, options, summary, RunVars>>

\* lines 310-318: runFeatureTest has returned; its result is pushed, and
\* counted when passed is true or false
DaCollect ==
    /\ entry = "e2e.js runAllTests" /\ pc = "df_return"
    /\ batch' = [results |-> Append(batch.results, results),
                 passed |-> IF results.passed = "true" THEN batch.passed + 1 ELSE batch.passed,
                 failed |-> IF results.passed = "false" THEN batch.failed + 1 ELSE batch.failed]
    /\ fi' = fi + 1
    /\ pc' = "da_loop"
    /\ UNCHANGED <<entry, features, options, summary, RunVars>>

\* closeBrowser (lines 230-232): one close, its result dropped
closeBrowser(q) == Append(q, Issued(CmdClose, "ignored", 0))

\* lines 324-341: the loop is over; the browser is closed and the summary
\* returned
DaCloseAndReturn ==
    /\ pc = "da_loop" /\ fi > Len(features)
    /\ \E exit \in Exits : log' = closeBrowser(log) /\ out' = Ran(exit)
    /\ summary' = [total |-> batch.passed + batch.failed, passed |-> batch.passed,
                   failed |-> batch.failed, results |-> batch.results, error |-> NoError]
    /\ pc' = "da_done"
    /\ UNCHANGED <<entry, features, options, fi, batch, results, openResult, si, es,
                   snapshot, page, txt>>

NextDeferred ==
    \/ DfCheckDependency
    \/ DfOpen
    \/ DfRetryClose
    \/ DfRetryOpen
    \/ DfOpened
    \/ DfReturn
    \/ DaEnsure
    \/ DaCall
    \/ DaSkip
    \/ DaCollect
    \/ DaCloseAndReturn

SpecDeferred == InitDeferred /\ [][NextDeferred]_vars


\* ================================================================= claims
\* the commands of the current runFeatureTest call, in order
ThisRun == SelectSeq(log, LAMBDA e : e.feat = fi)
IsSessionOpen(e) == e.cmd.name = "open" /\ e.step = 0
IsClose(e) == e.cmd = CmdClose
CountOf(q, P(_)) == Len(SelectSeq(q, P))
Returned == pc = "ft_return"
DependencyMissing == results.error = ErrNotInstalled
AllStepsPassed(r) == \A i \in 1..Len(r.steps) : r.steps[i].passed

\* C1 (as claimed): close is invoked exactly once per runFeatureTest call,
\* whichever branch the call takes after the dependency check: all steps pass,
\* a step fails, open fails (also after its retry), or a fault is thrown.
C1_CloseExactlyOnce ==
    Returned /\ ~DependencyMissing => CountOf(ThisRun, IsClose) = 1

\* C1 (amended): a call that passes the dependency check ends with the close
\* of its finally block as its last command; it invokes close once when the
\* first open succeeds and twice when the first open fails (the close before
\* the retry and the close of the finally block); a call that fails the
\* dependency check invokes no command at all.
C1_CloseCount ==
    Returned =>
        IF DependencyMissing THEN ThisRun = <<>>
        ELSE /\ ThisRun # <<>>
             /\ IsClose(ThisRun[Len(ThisRun)])
             /\ CountOf(ThisRun, IsClose) = IF ThisRun[1].res = "fail" THEN 2 ELSE 1

\* C1 witness: a run has returned after a failed first open, a retry and a step
C1_Witness ==
    Returned /\ CountOf(ThisRun, IsClose) = 2 /\ Len(results.steps) >= 1

\* C2 (as claimed): the returned FeatureResult has passed = true if and only
\* if every StepResult in its steps list has passed = true.
C2_PassedIffAllSteps ==
    Returned => (results.passed <=> AllStepsPassed(results))

\* C2 (amended): passed = true implies that every StepResult has passed = true;
\* a result with passed = false whose StepResults all passed (or that has none)
\* is returned exactly for a missing dependency, an open failure, a failed
\* generic validation of a feature without steps, or a thrown fault.
C2_PassedImpliesAllSteps ==
    Returned =>
        /\ results.passed => AllStepsPassed(results)
        /\ ~results.passed /\ AllStepsPassed(results) =>
              results.error.kind \in {"agent-browser is not installed",
                                      "Failed to open browser: ", "Page failed to load",
                                      "TypeError"}
        /\ ~results.passed /\ ~AllStepsPassed(results) =>
              results.error.kind = "Step n failed: "

\* C2 witness: a run with steps has returned passed = true
C2_Witness ==
    Returned /\ results.passed /\ Len(results.steps) >= 2

\* executeStep has returned passed = false for step es.step and the loop is left
StepFailed ==
    es.step >= 1 /\ ~es.passed /\ pc \in {"ft_screenshot", "ft_finally", "ft_return"}

\* C3: when step k is the first step whose action fails, the result has exactly
\* k StepResults (the first k - 1 passed, the k-th failed), passed = false and
\* error = 'Step k failed: <reason>', and no command of a step after k is issued.
C3_FirstFailingStep ==
    /\ pc = "es_return" /\ ~es.passed =>
          /\ es.step = si /\ Len(results.steps) = si - 1
          /\ AllStepsPassed(results)
    /\ StepFailed =>
          LET k == es.step
          IN  /\ k \in 1..Len(feature.steps)
              /\ Len(results.steps) = k
              /\ \A i \in 1..(k - 1) : results.steps[i].passed
              /\ ~results.steps[k].passed
              /\ results.steps[k].step = feature.steps[k]
              /\ ~results.passed
              /\ results.error.kind = "Step n failed: "
              /\ results.error.n = k
              /\ results.error.reason = es.error
              /\ results.error.reason # NoError
              /\ \A j \in 1..Len(ThisRun) : ThisRun[j].step <= k

\* C3 witness: the second step of a feature has failed and the run has returned
C3_Witness ==
    Returned /\ StepFailed /\ es.step = 2 /\ Len(feature.steps) >= 2

SessionOpened == openResult.success

\* C4 (as claimed): a feature with zero steps whose session opens gets exactly
\* one synthetic StepResult, and passed equals that StepResult's passed.
C4_OneSyntheticStepResult ==
    Returned /\ ~HasSteps(feature) /\ SessionOpened =>
        /\ Len(results.steps) = 1
        /\ results.passed = results.steps[1].passed

\* C4 (what the code does): a feature with zero steps (absent or empty list) whose session
\* opens gets no StepResult; one snapshot command is issued, and passed is true
\* exactly when the snapshot parsed and its success field is truthy; otherwise
\* passed = false with the error 'Page failed to load'.
C4_GenericValidation ==
    pc \in {"ft_finally", "ft_return"} /\ ~HasSteps(feature) /\ SessionOpened =>
        /\ results.steps = <<>>
        /\ results.screenshots = <<>>
        /\ CountOf(ThisRun, LAMBDA e : e.cmd = CmdSnapshot) = 1
        /\ IF results.passed THEN results.error = NoError ELSE results.error = ErrPageLoad
        /\ pc = "ft_finally" => (results.passed <=> snapshot.parsed /\ snapshot.success)

\* C4 witness of what the code does: the snapshot of a feature without a steps property parsed, but
\* its success field is not truthy
C4_Witness ==
    /\ pc = "ft_finally" /\ ~feature.hasSteps /\ SessionOpened
    /\ snapshot.parsed /\ ~snapshot.success

\* C5: when the first open fails and the retry succeeds, the session is
\* acquired and the commands up to there are exactly open, close, open: two
\* opens of the session, one close between them.
C5_OpenRetry ==
    ThisRun # <<>> /\ ThisRun[1].res = "fail" /\ SessionOpened =>
        /\ Len(ThisRun) >= 3
        /\ ThisRun[1].cmd = CmdOpenSession(options)
        /\ ThisRun[2].cmd = CmdClose
        /\ ThisRun[3].cmd = CmdOpenSession(options) /\ ThisRun[3].res = "ok"
        /\ CountOf(ThisRun, IsSessionOpen) = 2
        /\ pc \notin {"ft_check", "ft_open", "ft_retry_close", "ft_retry_open"}
        /\ results.error.kind # "Failed to open browser: "

\* C5 witness: the retry has just succeeded and the steps are about to run
C5_Witness ==
    /\ pc = "ft_steps" /\ Len(ThisRun) = 3
    /\ ThisRun[1].res = "fail" /\ SessionOpened /\ HasSteps(feature)

FailedSessionOpens == CountOf(ThisRun, LAMBDA e : IsSessionOpen(e) /\ e.res = "fail")

\* C6: when open fails and its one retry fails too, there is no third open, no
\* step is executed and no step command issued, and the result has
\* passed = false and an error that carries the second open's error message.
C6_OpenFailsTwice ==
    /\ FailedSessionOpens <= 2
    /\ FailedSessionOpens = 2 =>
          /\ CountOf(ThisRun, IsSessionOpen) = 2
          /\ pc \in {"ft_finally", "ft_return", "done"}
          /\ results.steps = <<>>
          /\ es = NoStep
          /\ \A j \in 1..Len(ThisRun) :
                ThisRun[j].step = 0 /\ ThisRun[j].cmd.name \in {"open", "close"}
          /\ ~results.passed
          /\ ~openResult.success
          /\ results.error.kind = "Failed to open browser: "
          /\ results.error.cause = openResult.error
          /\ results.error.cause.kind \in {"Command failed", "ETIMEDOUT"}

\* C6 witness: both opens failed, the second by its timeout, and the run returned
C6_Witness ==
    Returned /\ FailedSessionOpens = 2 /\ openResult.error.kind = "ETIMEDOUT"

\* the evidence of a Verify step: the target is in a source and nothing made
\* the source unavailable
TargetInSnapshot ==
    es.snapshot = "read" /\ Includes(SnapshotText(page.snap), verifyTarget(stepText))
TargetInPageText ==
    es.text # "unavailable" /\ Includes(page.text, verifyTarget(stepText))
TargetInUrl ==
    es.url = "read" /\ Includes(page.url, RouteOf(verifyTarget(stepText)))

\* C7: a Verify step passes whenever its target appears in at least one of the
\* three evidence sources (snapshot, page text, current URL through the
\* label-to-path table), whatever the other two give.
C7_VerifyAnySource ==
    pc = "es_return" /\ classify(stepText) = "Verify" =>
        (TargetInSnapshot \/ TargetInPageText \/ TargetInUrl => es.passed)

\* C7 witness of the case: the snapshot gave nothing, the page text holds the
\* target and was never read, and the step failed
C7_TextNeverRead ==
    /\ pc = "es_return" /\ classify(stepText) = "Verify"
    /\ es.snapshot = "unavailable" /\ es.text = "none"
    /\ Includes(page.text, verifyTarget(stepText)) /\ ~es.passed

\* the keyword groups in the order of the claim
GroupOrder == <<"Navigate", "Click", "Fill", "Verify", "Login", "Wait">>
GroupKeywords ==
    [Navigate |-> {KwOpen, KwEnter, KwVisit}, Click |-> {KwClick},
     Fill |-> {KwInput, KwFillIn}, Verify |-> {KwVerify, KwCheck, KwConfirm},
     Login |-> {KwLogin}, Wait |-> {KwWait}]
HasKeywordOf(t, g) == \E kw \in GroupKeywords[g] : Includes(t, kw)
EarliestGroup(t) ==
    IF \E n \in 1..Len(GroupOrder) : HasKeywordOf(t, GroupOrder[n])
    THEN GroupOrder[CHOOSE n \in 1..Len(GroupOrder) :
                        /\ HasKeywordOf(t, GroupOrder[n])
                        /\ \A m \in 1..(n - 1) : ~HasKeywordOf(t, GroupOrder[m])]
    ELSE "Default"

\* C8: the branch executed for a step text is the earliest group, in the order
\* Navigate, Click, Fill, Verify, Login, Wait, that has a keyword in the text,
\* and Default when none has; a text with a Click and a Verify keyword is never
\* executed as Verify, and is executed as Click (unless a Navigate keyword,
\* which is tested before both, is in it too).
C8_ClassifierPrecedence ==
    out.op = "classify" =>
        /\ out.kind = EarliestGroup(txt)
        /\ HasKeywordOf(txt, "Click") /\ HasKeywordOf(txt, "Verify") =>
              /\ out.kind # "Verify"
              /\ ~HasKeywordOf(txt, "Navigate") => out.kind = "Click"

\* C8 witness: a text with the Click keyword after a Verify keyword was classified
C8_Witness ==
    out.op = "classify" /\ txt = KwVerify \o KwClick /\ out.kind = "Click"

\* C9: the runs of a batch are sequential on one session: the commands in the
\* log are grouped by feature in the order of the features, the last command
\* of a feature's run before the first command of a later feature is its
\* close, and a run's result is pushed and counted only after it returned.
C9_SequentialRuns ==
    /\ \A j \in 2..Len(log) :
          /\ log[j - 1].feat <= log[j].feat
          /\ log[j - 1].feat < log[j].feat => IsClose(log[j - 1])
    /\ entry = "runAllTests" =>
          /\ Len(batch.results) = batch.passed + batch.failed
          /\ pc \notin {"ra_ensure", "ra_loop", "ra_done"} =>
                \A k \in 1..Len(batch.results) : batch.results[k].featureId # feature.id
          /\ \A k \in 1..Len(batch.results) :
                \E j \in 1..Len(features) :
                   j < fi /\ features[j].id = batch.results[k].featureId

\* C9 witness: the second feature of a batch has opened its session after the
\* first feature's run, which had opened one too
C9_Witness ==
    /\ entry = "runAllTests" /\ fi = 2 /\ pc = "ft_steps"
    /\ \E i, j \in 1..Len(log) :
          /\ log[i].feat = 1 /\ IsSessionOpen(log[i]) /\ log[i].res = "ok"
          /\ log[j].feat = 2 /\ IsSessionOpen(log[j]) /\ log[j].res = "ok"

FeatureIdsOf(q) == [k \in 1..Len(q) |-> q[k].id]
ResultIdsOf(q) == [k \in 1..Len(q) |-> q[k].featureId]
\* the features before position n that have passes = true, or all of them
\* when testAll is set
IncludedBefore(n) ==
    SelectSeq(SubSeq(features, 1, n - 1), LAMBDA f : f.passes \/ options.testAll)

\* C10: runAllTests runs runFeatureTest for exactly the features with
\* passes = true, or for all features when testAll is set, in the given order:
\* a feature with passes = false is never run when testAll is unset, and the
\* results are the included features in their original order.
C10_InclusionOrder ==
    entry = "runAllTests" =>
        /\ ResultIdsOf(batch.results) = FeatureIdsOf(IncludedBefore(fi))
        /\ \A j \in 1..Len(log) : features[log[j].feat].passes \/ options.testAll
        /\ pc \notin {"ra_ensure", "ra_loop", "ra_done"} => feature.passes \/ options.testAll
        /\ pc = "ra_done" /\ summary.error = NoError =>
              /\ fi = Len(features) + 1
              /\ summary.results = batch.results

\* C10 witness: of two features the first has passes = true and the second
\* passes = false, testAll is unset, and the batch returned the first's result
C10_Witness ==
    /\ pc = "ra_done" /\ ~options.testAll /\ Len(features) = 2
    /\ features[1].passes /\ ~features[2].passes
    /\ ResultIdsOf(summary.results) = <<features[1].id>>

\* C11: when the dependency is not there at the start of runAllTests (check and
\* install both fail), the batch fails at once: no feature is run, no browser
\* command is issued, results is empty, passed = 0 and failed (and total) is
\* the length of the whole input list, whatever the inclusion filter.
C11_BatchDependencyMissing ==
    pc = "ra_done" /\ summary.error = ErrNotInstalled =>
        /\ log = <<>>
        /\ fi = 1 /\ results = NoFeatureResult /\ openResult = NoResult
        /\ batch = [results |-> <<>>, passed |-> 0, failed |-> 0]
        /\ summary.results = <<>>
        /\ summary.passed = 0
        /\ summary.failed = Len(features)
        /\ summary.total = Len(features)

\* C11 witness: the dependency check failed for a list of two features of which
\* the filter would have included only the second
C11_Witness ==
    /\ pc = "ra_done" /\ summary.error = ErrNotInstalled
    /\ Len(features) = 2 /\ ~options.testAll
    /\ ~features[1].passes /\ features[2].passes

\* both opens of the run of feature i failed
OpenFailedTwiceFor(i) ==
    CountOf(log, LAMBDA e : e.feat = i /\ IsSessionOpen(e) /\ e.res = "fail") = 2

\* C12: an open failure is fatal for its own feature run only: once the run of
\* a feature whose open failed twice has returned, the batch holds exactly one
\* result for it, failed with the open error, the results so far are those of
\* the included features in order, and the batch ends only after the loop has
\* passed over every feature.
C12_OpenFailureNotFatal ==
    entry = "runAllTests" =>
        \A i \in 1..Len(features) :
            OpenFailedTwiceFor(i) /\ fi > i =>
                /\ CountOf(batch.results, LAMBDA r : r.featureId = features[i].id) = 1
                /\ \A k \in 1..Len(batch.results) :
                      batch.results[k].featureId = features[i].id =>
                          /\ ~batch.results[k].passed
                          /\ batch.results[k].error.kind = "Failed to open browser: "
                /\ batch.failed >= 1
                /\ ResultIdsOf(batch.results) = FeatureIdsOf(IncludedBefore(fi))
                /\ pc = "ra_done" =>
                      /\ fi = Len(features) + 1
                      /\ summary.results = batch.results
                      /\ summary.failed = batch.failed

\* C12 witness: the first of two features failed to open twice and the second
\* was run after it and passed
C12_Witness ==
    /\ pc = "ra_done" /\ Len(features) = 2 /\ OpenFailedTwiceFor(1)
    /\ Len(summary.results) = 2
    /\ ~summary.results[1].passed /\ summary.results[2].passed

\* what a returned FeatureResult says of the run: passed = false with an error
\* exactly when the dependency was missing, the browser could not be opened, a
\* step failed or threw, or the generic validation failed
FailureRecorded ==
    /\ results.featureId = feature.id
    /\ results.passed <=> results.error = NoError
    /\ ~results.passed <=>
          \/ DependencyMissing
          \/ FailedSessionOpens = 2
          \/ ~AllStepsPassed(results)
          \/ results.error = ErrTypeError
          \/ results.error = ErrPageLoad

\* C13: runFeatureTest never lets a failure out to its caller: whatever the
\* external commands do (success, failure or timeout), no exception leaves the
\* call, and the FeatureResult the call returns records the failure in passed
\* and error.
C13_NeverPropagates ==
    /\ pc # "thrown"
    /\ Returned => FailureRecorded

\* C13 witness: a step that is no string made executeStep throw after an
\* earlier step had run, and the call returned with the fault as its error
C13_Witness ==
    /\ Returned /\ results.error = ErrTypeError /\ ~results.passed
    /\ Len(results.steps) = 1

\* C14: when the dependency is absent and the install attempt fails,
\* runFeatureTest returns at once with passed = false, the 'not installed'
\* error, no StepResult and no screenshot, and it has issued no command at
\* all (no open, step command, screenshot or close).
C14_DependencyMissing ==
    Returned /\ DependencyMissing =>
        /\ ~results.passed
        /\ results.steps = <<>>
        /\ results.screenshots = <<>>
        /\ results.featureId = feature.id
        /\ ThisRun = <<>>
        /\ openResult = NoResult /\ es = NoStep

\* C14 witness: a direct call for a feature with steps returned 'not installed'
C14_Witness ==
    /\ entry = "runFeatureTest" /\ Returned /\ DependencyMissing
    /\ HasSteps(feature)

\* the navigation verbs and the whitespace that may follow a verb
NavigateVerbs == {KwOpen, KwEnter, KwVisit}
Gaps == {<<>>, <<" ">>}

\* C15: extractTarget removes one leading verb and resolves a known label to
\* its route: a navigation verb followed by a label of the table gives the
\* label's path (which Navigate opens under the baseUrl), a verb followed by an
\* absolute http(s) address gives the address unchanged, and Navigate opens it
\* as it is, without the baseUrl; of two leading verbs only the first goes.
C15_ExtractTarget ==
    out.op = "extractTarget" =>
        \A verb \in NavigateVerbs, gap \in Gaps :
            /\ \A k \in 1..Len(RouteLabels) :
                  txt = verb \o gap \o RouteLabels[k] =>
                      /\ out.target = RoutePaths[k]
                      /\ out.url = DefaultBaseUrl \o RoutePaths[k]
            /\ \A address \in {HttpAddress, HttpsAddress} :
                  txt = verb \o gap \o address =>
                      /\ out.target = address
                      /\ out.url = address
            /\ \A second \in NavigateVerbs \cup {KwClick} :
                  txt = verb \o second \o gap \o HttpAddress =>
                      out.target = second \o gap \o HttpAddress

\* C15 witness: extractTarget was called with 打开 登录页 and gave /login
C15_Witness ==
    /\ out.op = "extractTarget"
    /\ txt = KwOpen \o <<" ">> \o LabelLoginPage
    /\ out.target = PathLogin

\* positions a..b of s hold whitespace only / no whitespace at all
AllSpace(s, a, b) == \A j \in a..b : s[j] \in WhiteSpace
NoSpace(s, a, b) == \A j \in a..b : s[j] \notin WhiteSpace

\* kw\s*(\S+)\s+(\S+) matches step somewhere with the groups at fs..fe and
\* vs..ve; Want(f, v) says which groups are asked for
VerbPatternParses(step, kw, Want(_, _)) ==
    \E i \in 1..Len(step) :
       /\ OccursAt(step, kw, i)
       /\ \E fs \in (i + Len(kw))..Len(step) :
             /\ AllSpace(step, i + Len(kw), fs - 1)
             /\ \E fe \in fs..Len(step) :
                   /\ NoSpace(step, fs, fe)
                   /\ \E vs \in (fe + 2)..Len(step) :
                         /\ AllSpace(step, fe + 1, vs - 1)
                         /\ \E ve \in vs..Len(step) :
                               /\ NoSpace(step, vs, ve)
                               /\ Want(SubSeq(step, fs, fe), SubSeq(step, vs, ve))

\* KwIn\s*(\S+)\s*KwInInput\s*(\S+) matches step somewhere
InPatternParses(step, Want(_, _)) ==
    \E i \in 1..Len(step) :
       /\ OccursAt(step, KwIn, i)
       /\ \E fs \in (i + Len(KwIn))..Len(step) :
             /\ AllSpace(step, i + Len(KwIn), fs - 1)
             /\ \E fe \in fs..Len(step) :
                   /\ NoSpace(step, fs, fe)
                   /\ \E ms \in (fe + 1)..Len(step) :
                         /\ AllSpace(step, fe + 1, ms - 1)
                         /\ OccursAt(step, KwInInput, ms)
                         /\ \E vs \in (ms + Len(KwInInput))..Len(step) :
                               /\ AllSpace(step, ms + Len(KwInInput), vs - 1)
                               /\ \E ve \in vs..Len(step) :
                                     /\ NoSpace(step, vs, ve)
                                     /\ Want(SubSeq(step, fs, fe), SubSeq(step, vs, ve))

\* C16: extractInput returns the {field, value} of the first of its three
\* patterns (输入 f v, 填写 f v, 在 f 中输入 v) that matches the step; when none
\* matches it returns the testData pair of the feature if there is one, and
\* {field: 'input', value: 'test'} otherwise.
C16_ExtractInput ==
    out.op = "extractInput" =>
        LET AnyPair(f, v) == TRUE
            Got(f, v) == f = out.input.field /\ v = out.input.value
            testData == features[1].testData
        IN  IF VerbPatternParses(txt, KwInput, AnyPair) THEN VerbPatternParses(txt, KwInput, Got)
            ELSE IF VerbPatternParses(txt, KwFillIn, AnyPair)
                 THEN VerbPatternParses(txt, KwFillIn, Got)
            ELSE IF InPatternParses(txt, AnyPair) THEN InPatternParses(txt, Got)
            ELSE IF testData.has
                 THEN out.input = [field |-> testData.field, value |-> testData.value]
            ELSE out.input = [field |-> <<"i", "n", "p", "u", "t">>,
                              value |-> <<"t", "e", "s", "t">>]

\* C16 witness: the step 填写输入a b matches the second pattern with the field
\* 输入a and the first with the field a, and extractInput gave the first's
C16_Witness ==
    /\ out.op = "extractInput"
    /\ txt = KwFillIn \o KwInput \o <<"a", " ", "b">>
    /\ out.input = [field |-> <<"a">>, value |-> <<"b">>]

\* the rank the claim gives a priority: critical < high < medium < low, and
\* any other priority ranks as medium
ClaimedRank(f) ==
    CASE f.priority = "critical" -> 0
      [] f.priority = "high" -> 1
      [] f.priority = "low" -> 3
      [] OTHER -> 2

\* the result is null exactly when nothing is pending, and is otherwise the
\* earliest of the pending features of minimal rank
NextIsEarliestOfMinimalRank ==
    LET pending == {i \in 1..Len(features) : ~features[i].passes}
    IN  /\ out.result = Null <=> pending = {}
        /\ pending # {} =>
              \E i \in pending :
                 /\ out.result = features[i]
                 /\ \A j \in pending :
                       \/ ClaimedRank(features[i]) < ClaimedRank(features[j])
                       \/ ClaimedRank(features[i]) = ClaimedRank(features[j]) /\ i <= j

\* C17: getNextPendingFeature returns null exactly when no feature is pending;
\* otherwise it returns a pending feature (never a completed one) whose rank
\* (critical < high < medium < low, any unknown priority ranked as medium) is
\* minimal among the pending features, the earliest of the list among those of
\* equal rank.
C17_NextPendingByRank ==
    out.op = "getNextPendingFeature" => NextIsEarliestOfMinimalRank

\* what holds of the code: the same, for lists in which no pending feature has
\* a priority that is the name of an inherited member
C17_NextPendingOwnNames ==
    /\ out.op = "getNextPendingFeature"
    /\ \A i \in 1..Len(features) :
          ~features[i].passes => features[i].priority \notin InheritedNames
    => NextIsEarliestOfMinimalRank

\* the features of a group and the sum of a field over the groups of a table
RECURSIVE SumOfGroups(_, _, _)
SumOfGroups(table, keys, field) ==
    IF keys = {} THEN 0
    ELSE LET k == CHOOSE x \in keys : TRUE
         IN  table[k][field].value + SumOfGroups(table, keys \ {k}, field)

\* the table counts, for each group, the features of the group and the
\* completed ones among them, and the counts sum to the totals
GroupsCount(table, ClaimedKey(_), total, completed) ==
    /\ DOMAIN table = {ClaimedKey(features[i]) : i \in 1..Len(features)}
    /\ \A k \in DOMAIN table :
          /\ table[k].total =
                Num(Cardinality({i \in 1..Len(features) : ClaimedKey(features[i]) = k}))
          /\ table[k].completed =
                Num(Cardinality({i \in 1..Len(features) :
                                    ClaimedKey(features[i]) = k /\ features[i].passes}))
    /\ SumOfGroups(table, DOMAIN table, "total") = total
    /\ SumOfGroups(table, DOMAIN table, "completed") = completed

\* C18: updateMetadata returns total_features = the number of features,
\* completed_features = the number with passes = true, and per-priority and
\* per-category {total, completed} counts (no priority counts as 'medium', no
\* category as 'functional') whose totals sum to total_features and whose
\* completed counts sum to completed_features; completion_percentage is 0 for
\* an empty list and 100 when all features pass.
C18_MetadataCounts ==
    out.op = "updateMetadata" =>
        LET m == out.result
            completed == Cardinality({i \in 1..Len(features) : features[i].passes})
        IN  /\ m.total_features = Len(features)
            /\ m.completed_features = completed
            /\ GroupsCount(m.by_priority,
                           LAMBDA f : IF f.priority = Absent THEN "medium" ELSE f.priority,
                           Len(features), completed)
            /\ GroupsCount(m.by_category,
                           LAMBDA f : IF f.category = Absent THEN "functional" ELSE f.category,
                           Len(features), completed)
            /\ Len(features) = 0 => m.completion_percentage = 0
            /\ Len(features) > 0 /\ completed = Len(features) =>
                  m.completion_percentage = 100 * 100

\* what holds of the code: the counts of C18, for lists in which no priority and no category is the name of an
\* inherited member: this holds of the code
C18_MetadataOwnNames ==
    /\ \A i \in 1..Len(features) :
          /\ features[i].priority \notin InheritedNames
          /\ features[i].category \notin InheritedNames
    => C18_MetadataCounts

\* what a call of markFeatureComplete returns, but for the notes
CompletedCopy ==
    LET given == features[1]
        r == out.result
    IN  /\ r.passes /\ r.status = "completed" /\ r.completed_at # Absent
        /\ r.attempts = given.attempts + 1
        /\ r.id = given.id /\ r.description = given.description
        /\ r.category = given.category /\ r.priority = given.priority

\* C19 (as claimed): markFeatureComplete returns a feature with passes = true,
\* status = 'completed', completed_at set, attempts = previous attempts + 1,
\* the other fields as given, and notes equal to the notes of the call when
\* they are provided and to the existing notes otherwise.
C19_NotesWhenProvided ==
    out.op = "markFeatureComplete" =>
        /\ CompletedCopy
        /\ out.result.notes =
              IF options.notes # Absent THEN options.notes ELSE features[1].notes

\* C19 (amended): the same, with notes equal to the notes of the call when
\* these are a non-empty string, and to the existing notes otherwise (also
\* when the call gives the empty string).
C19_NotesWhenNotEmpty ==
    out.op = "markFeatureComplete" =>
        /\ CompletedCopy
        /\ out.result.notes =
              IF options.notes \notin {Absent, ""} THEN options.notes ELSE features[1].notes

\* C19 witness: a feature with two attempts and a note was completed by a call
\* without notes and kept its note
C19_Witness ==
    /\ out.op = "markFeatureComplete" /\ options.notes = Absent
    /\ features[1].attempts = 2 /\ features[1].notes = "Existing note"
    /\ out.result.attempts = 3 /\ out.result.notes = "Existing note"

\* C20: the feature list is immutable but for completion: no command of the
\* CLI (add, done, next, status, list, commit, export) removes, moves or
\* renames a feature of features.json (every feature stays at its place with
\* its id and its description), and a feature with passes = true never gets
\* passes = false again.
C20_FeaturesKept ==
    [][entry = "cli" =>
          /\ Len(features') >= Len(features)
          /\ \A i \in 1..Len(features) :
                /\ features'[i].id = features[i].id
                /\ features'[i].description = features[i].description
                /\ features[i].passes => features'[i].passes]_vars

\* C20 witness: of two features the first was marked done, and the list was
\* then exported over features.json
C20_Witness ==
    /\ entry = "cli" /\ Len(features) = 2
    /\ features[1].passes /\ features[1].attempts = 1 /\ ~features[2].passes
    /\ out.op = "export" /\ out.output = FeaturesFile

\* C21: for a feature with N >= 1 steps, the StepResults of the returned
\* result are a prefix of the feature's steps in order: at most N of them, the
\* i-th with the text of the i-th step, all but possibly the last passed; a
\* result has passed = true only with N StepResults, and N StepResults that
\* all passed come with passed = true, error null (also in each StepResult)
\* and no screenshots.
C21_StepResultsArePrefix ==
    Returned /\ HasSteps(feature) =>
        LET N == Len(feature.steps)
            n == Len(results.steps)
        IN  /\ n <= N
            /\ \A i \in 1..n : results.steps[i].step = feature.steps[i]
            /\ \A i \in 1..(n - 1) : results.steps[i].passed
            /\ results.passed => n = N
            /\ n = N /\ AllStepsPassed(results) =>
                  /\ results.passed
                  /\ results.error = NoError
                  /\ results.screenshots = <<>>
                  /\ \A i \in 1..n : results.steps[i].error = NoError

\* C21 witness: a run of MaxSteps steps has returned with all of them passed,
\* the last one by a command
C21_Witness ==
    /\ Returned /\ Len(feature.steps) = MaxSteps
    /\ Len(results.steps) = MaxSteps /\ AllStepsPassed(results)
    /\ \E j \in 1..Len(ThisRun) : ThisRun[j].step = MaxSteps

\* the j-th command of the run is issued while the session is open: an open
\* of the session succeeded before it, with no close in between
IssuedWhileOpen(j) ==
    \E i \in 1..(j - 1) :
        /\ IsSessionOpen(ThisRun[i]) /\ ThisRun[i].res = "ok"
        /\ \A k \in (i + 1)..(j - 1) : ~IsClose(ThisRun[k]) /\ ~IsSessionOpen(ThisRun[k])

\* C22: every command of a run other than the opens of the session and the
\* closes (the commands of the steps, the snapshot of the generic validation,
\* the failure screenshot) is issued while the session is open, and a run that
\* has returned after issuing commands issued a close as its last command.
C22_OnlyWhileOpen ==
    /\ \A j \in 1..Len(ThisRun) :
          ~IsSessionOpen(ThisRun[j]) /\ ~IsClose(ThisRun[j]) => IssuedWhileOpen(j)
    /\ pc \in {"ft_return", "done"} /\ ThisRun # <<>> =>
          /\ IsClose(ThisRun[Len(ThisRun)])
          /\ \A j \in 1..(Len(ThisRun) - 1) :
                IsClose(ThisRun[j]) => j = 2 /\ ThisRun[1].res = "fail"

\* C22 witness: the session opened at the retry, a step issued a command and
\* failed, the screenshot was taken and the run has returned
C22_Witness ==
    /\ Returned /\ Len(ThisRun) >= 6
    /\ ThisRun[1].res = "fail" /\ IsClose(ThisRun[2]) /\ ThisRun[3].res = "ok"
    /\ ThisRun[Len(ThisRun) - 1].cmd.name = "screenshot"
    /\ ThisRun[Len(ThisRun) - 2].step >= 1

IsScreenshot(e) == e.cmd.name = "screenshot"
SomeStepFailed(r) == \E i \in 1..Len(r.steps) : ~r.steps[i].passed

\* what C23 says of a run that has returned
ScreenshotOnFailureOnly ==
    Returned =>
        IF SomeStepFailed(results)
        THEN LET k == Len(results.steps)
                 n == Len(ThisRun)
             IN  /\ CountOf(ThisRun, IsScreenshot) = 1
                 /\ IsScreenshot(ThisRun[n - 1]) /\ IsClose(ThisRun[n])
                 /\ \E j \in 1..(n - 2) : ThisRun[j].step = k
                 /\ \A j \in 1..(n - 2) : ThisRun[j].step <= k
                 /\ results.screenshots = <<ThisRun[n - 1].cmd.args[1]>>
        ELSE /\ CountOf(ThisRun, IsScreenshot) = 0
             /\ results.screenshots = <<>>

\* C23: on the first failing step exactly one screenshot command is issued,
\* after the commands of that step and before the close, and exactly one
\* screenshot path is appended to the result; a screenshot command that fails
\* or times out changes neither passed, error nor the StepResults; when no
\* step fails, no screenshot command is issued and screenshots is empty.
C23_FailureScreenshot ==
    /\ []ScreenshotOnFailureOnly
    /\ [][pc = "ft_screenshot" =>
             /\ results'.passed = results.passed
             /\ results'.error = results.error
             /\ results'.steps = results.steps
             /\ results'.screenshots = Append(results.screenshots, ScreenshotPath(feature))]_vars

\* C23 witness: the second step failed and the screenshot command timed out
C23_Witness ==
    /\ pc = "ft_finally" /\ out.exit = "timeout"
    /\ IsScreenshot(log[Len(log)]) /\ log[Len(log)].step = 2
    /\ ~results.passed /\ Len(results.screenshots) = 1
    /\ results.error = ErrStep(2, es.error)

\* the commands issued so far for the step executeStep is running or has run
StepCommands == SelectSeq(ThisRun, LAMBDA e : e.step = es.step /\ ~IsScreenshot(e))
InExecuteStep == pc \in {"es_click", "es_fill_password", "es_fill_fallback", "es_verify_text",
                         "es_verify_url", "es_login_password", "es_login_click", "es_return"}
StepIs(kind) == InExecuteStep /\ es.step = si /\ classify(stepText) = kind
\* executeStep has returned for the step
StepReturned == pc = "es_return"

\* the three candidates of a Click, in the order of the claim
ClickCandidateNames ==
    <<"find role button click --name", "find text click", "click text=">>

\* C24: a Click step tries its three candidates in the fixed order (role
\* button by name, text match, text selector), each on the target of the step;
\* it stops at the first that succeeds without issuing the later ones, passes
\* if a candidate succeeded, and fails only when all three were issued and
\* failed.
C24_ClickFallback ==
    StepIs("Click") =>
        LET c == StepCommands
            n == Len(c)
        IN  /\ n \in 1..3
            /\ \A i \in 1..n :
                  /\ c[i].cmd.name = ClickCandidateNames[i]
                  /\ c[i].cmd.args = <<extractTarget(stepText)>>
            /\ \A i \in 1..(n - 1) : c[i].res = "fail"
            /\ pc = "es_click" => c[n].res = "fail" /\ n < 3
            /\ StepReturned =>
                  /\ es.passed <=> c[n].res = "ok"
                  /\ ~es.passed => n = 3 /\ es.error = ErrCouldNotClick(extractTarget(stepText))

\* C24 witness: the first two candidates of a Click failed and the third, the
\* text selector, succeeded
C24_Witness ==
    /\ StepIs("Click") /\ StepReturned /\ es.passed
    /\ Len(StepCommands) = 3 /\ StepCommands[3].cmd.name = "click text="

\* C25: a general Fill step (a Fill keyword without both the student-id and
\* the password token) issues the placeholder-based fill first and the
\* attribute-selector fill, for the same field and value, only when the first
\* failed; the step passes if either succeeds and fails only when both failed.
C25_FillFallback ==
    StepIs("Fill") /\ ~IsCredentialFill(stepText) =>
        LET c == StepCommands
            n == Len(c)
        IN  /\ n \in 1..2
            /\ c[1].cmd.name = "find placeholder fill"
            /\ n = 2 =>
                  /\ c[1].res = "fail"
                  /\ c[2].cmd.name = "fill [placeholder*=]"
                  /\ c[2].cmd.args = c[1].cmd.args
            /\ pc = "es_fill_fallback" => n = 1 /\ c[1].res = "fail"
            /\ StepReturned =>
                  /\ es.passed <=> c[n].res = "ok"
                  /\ ~es.passed => n = 2

\* C25 witness: the placeholder fill failed and the attribute selector filled
\* the field
C25_Witness ==
    /\ StepIs("Fill") /\ ~IsCredentialFill(stepText) /\ StepReturned /\ es.passed
    /\ Len(StepCommands) = 2 /\ StepCommands[2].res = "ok"

\* C26: a Fill step whose text has both the student-id and the password token
\* fills the fixed student-id field and then the fixed password field, with
\* the fixed values, and passes if and only if both fills succeed; the field
\* and value that extractInput gives for the step are not used.
C26_CredentialFill ==
    StepIs("Fill") /\ IsCredentialFill(stepText) =>
        LET c == StepCommands
            n == Len(c)
            input == extractInput(stepText, feature.testData)
        IN  /\ n \in 1..2
            /\ c[1].cmd = Cmd("find placeholder fill", <<KwStudentId, StudentIdValue>>)
            /\ n = 2 =>
                  /\ c[1].res = "ok"
                  /\ c[2].cmd = Cmd("find placeholder fill", <<KwPassword, PasswordValue>>)
            /\ pc = "es_fill_password" => n = 1 /\ c[1].res = "ok"
            /\ \A i \in 1..n : c[i].cmd.args # <<input.field, input.value>>
            /\ StepReturned =>
                  /\ es.passed <=> (n = 2 /\ c[1].res = "ok" /\ c[2].res = "ok")
                  /\ ~es.passed => es.error = ErrCredentials

\* C26 witness: both fields of a two-field Fill were filled and the step passed
C26_Witness ==
    /\ StepIs("Fill") /\ IsCredentialFill(stepText) /\ StepReturned /\ es.passed
    /\ Len(StepCommands) = 2

\* C27: a Login step issues, in this order, the student-id fill, the password
\* fill and the click on the login button by role and name, each only after
\* the one before it succeeded, and the step passes only if the click, the
\* last of the three, succeeds.
C27_LoginSequence ==
    StepIs("Login") =>
        LET c == StepCommands
            n == Len(c)
            expected == <<Cmd("find placeholder fill", <<KwStudentId, StudentIdValue>>),
                          Cmd("find placeholder fill", <<KwPassword, PasswordValue>>),
                          Cmd("find role button click --name", <<KwLogin>>)>>
        IN  /\ n \in 1..3
            /\ \A i \in 1..n : c[i].cmd = expected[i]
            /\ \A i \in 1..(n - 1) : c[i].res = "ok"
            /\ ~StepReturned => c[n].res = "ok" /\ n < 3
            /\ StepReturned =>
                  /\ es.passed <=> (n = 3 /\ c[3].res = "ok")
                  /\ ~es.passed => es.error = ErrLogin

\* C27 witness: a Login step filled both fields, clicked the button and passed
C27_Witness ==
    /\ StepIs("Login") /\ StepReturned /\ es.passed
    /\ Len(StepCommands) = 3 /\ StepCommands[3].res = "ok"

\* the first integer literal of a text: a digit with no digit before it in the
\* text, and the digits up to the first character that is none
FirstIntegerIs(text, a, b) ==
    /\ 1 <= a /\ a <= b /\ b <= Len(text)
    /\ \A j \in 1..(a - 1) : ~IsDigit(text[j])
    /\ \A j \in a..b : IsDigit(text[j])
    /\ b < Len(text) => ~IsDigit(text[b + 1])

\* C28: a Wait step and a Default (unclassified) step always pass, with error
\* null, and issue no external command; the duration of a Wait is the first
\* integer literal of the step text, or 2000 ms when the text has none.
C28_WaitAndDefault ==
    StepReturned /\ es.step = si /\ classify(stepText) \in {"Wait", "Default"} =>
        /\ es.passed /\ es.error = NoError
        /\ StepCommands = <<>>
        /\ classify(stepText) = "Wait" =>
              /\ \A a, b \in 1..Len(stepText) :
                    FirstIntegerIs(stepText, a, b) => es.ms = parseInt(SubSeq(stepText, a, b))
              /\ (\A j \in 1..Len(stepText) : ~IsDigit(stepText[j])) => es.ms = 2000

\* C28 witness: a Wait step whose text has two integers waited for the first
C28_Witness ==
    /\ StepReturned /\ es.step = si /\ classify(stepText) = "Wait"
    /\ feature.steps[si] = StepWaitTwice /\ es.ms = 30 /\ es.passed

\* where the code goes from the current place when the command it issues there
\* does not succeed: the same place for a non-zero exit and for a timeout
AfterCommandNotOk ==
    CASE pc = "ft_open" -> "ft_retry_close"
      [] pc = "ft_retry_close" -> "ft_retry_open"
      [] pc \in {"ft_retry_open", "ft_steps", "ft_screenshot"} -> "ft_finally"
      [] pc = "ft_finally" -> "ft_return"
      [] pc = "es_begin" ->
            (CASE classify(stepText) = "Click" -> "es_click"
               [] classify(stepText) = "Fill" /\ ~IsCredentialFill(stepText) -> "es_fill_fallback"
               [] classify(stepText) = "Verify" -> "es_verify_url"
               [] OTHER -> "es_return")
      [] pc = "es_click" -> IF Len(StepCommands) < 2 THEN "es_click" ELSE "es_return"
      [] pc = "es_verify_text" -> "es_verify_url"
      [] OTHER -> "es_return"

\* what the caller of runAgentBrowserCommand gets for the two kinds of failure
SameForCaller ==
    \A cmd \in {CmdUrl, CmdClose}, stdout \in {NoOutput, TextOutput(<<"x">>)} :
        LET failed == runAgentBrowserCommand(cmd, Exec("fail", stdout))
            timedOut == runAgentBrowserCommand(cmd, Exec("timeout", stdout))
        IN  /\ ~failed.success /\ ~timedOut.success
            /\ failed.output = timedOut.output

\* C29: a timeout of an external command is handled as a failure of it: the
\* caller gets success = false and the same output for both, and after a
\* command that ended in either way the run is at the same place whichever of
\* the two it was (so the same commands follow, a timed-out candidate of a
\* Click or Fill being followed by the next candidate), the step has not
\* passed, and passed and the StepResults of the run are as for a failure.
C29_TimeoutAsFailure ==
    [][log' # log /\ out'.exit # "ok" =>
          /\ SameForCaller
          /\ pc' = AfterCommandNotOk
          /\ results'.steps = results.steps
          /\ results'.passed = IF pc \in {"ft_retry_open", "ft_steps"} THEN FALSE
                               ELSE results.passed
          /\ pc' = "es_return" => ~es'.passed
          /\ pc \in {"ft_open", "ft_retry_open"} => ~openResult'.success]_vars

\* C29 witness: the second candidate of a Click timed out and the loop goes on
\* to the third
C29_Witness ==
    /\ pc = "es_click" /\ out.exit = "timeout"
    /\ Len(StepCommands) = 2 /\ StepCommands[2].res = "fail"

\* the text of a step with its leading verb removed, its quote characters
\* removed, trimmed: no path substituted into it
CleanedText(t) == Trim(StripQuotes(StripLeadingVerb(t, TargetVerbs)))
TablePaths == {RoutePaths[k] : k \in 1..Len(RoutePaths)}

\* C30 (as claimed): for every step text extractTarget returns either exactly
\* a path of the label-to-path table or the cleaned text of the step (verb
\* removed, quotes removed, trimmed) with no path substituted into it, never
\* a path of the table followed by leftover text.
C30_PathOrCleanedText ==
    out.op = "extractTarget" =>
        \/ out.target \in TablePaths
        \/ out.target = CleanedText(txt)

\* what holds of the code: when the text, its verb removed, starts with a
\* label of the table, the result is the label's path followed by whatever
\* the text has after the label (quotes removed, trimmed at the end); it is
\* the cleaned text in every other case.
C30_PathThenLeftover ==
    out.op = "extractTarget" =>
        LET rest == StripLeadingVerb(txt, TargetVerbs)
        IN  IF \E k \in 1..Len(RouteLabels) : StartsWith(rest, RouteLabels[k])
            THEN \E k \in 1..Len(RouteLabels) :
                    /\ StartsWith(rest, RouteLabels[k])
                    /\ out.target =
                          Trim(RoutePaths[k] \o
                               StripQuotes(SubSeq(rest, Len(RouteLabels[k]) + 1, Len(rest))))
            ELSE out.target = CleanedText(txt)

\* a step text for which the result is a path with leftover text: 打开登录页提交
C30_LeftoverReached ==
    /\ out.op = "extractTarget"
    /\ txt = KwOpen \o LabelLoginPage \o <<"U63D0", "U4EA4">>
    /\ out.target = PathLogin \o <<"U63D0", "U4EA4">>

\* C31 (as claimed): extractTarget strips the quote characters and trims
\* before it applies the label-to-path table, so a label of the table written
\* inside quote characters after the verb resolves to the path of the label:
\* a text whose cleaned text is a label of the table gives the label's path.
C31_QuotedLabelResolves ==
    out.op = "extractTarget" =>
        \A k \in 1..Len(RouteLabels) :
            CleanedText(txt) = RouteLabels[k] => out.target = RoutePaths[k]

\* what holds of the code: the table is applied before the quote characters
\* are removed, so a label that follows a quote character is not resolved and
\* comes back as the label itself
C31_QuotedLabelKept ==
    out.op = "extractTarget" =>
        \A k \in 1..Len(RouteLabels) :
            CleanedText(txt) = RouteLabels[k] =>
                out.target = IF StartsWith(StripLeadingVerb(txt, TargetVerbs), RouteLabels[k])
                             THEN RoutePaths[k] ELSE RouteLabels[k]

\* the example of the claim, 打开 "登录页", gives 登录页 and not /login
C31_QuotedReached ==
    /\ out.op = "extractTarget"
    /\ txt = KwOpen \o <<" ">> \o QuotedLoginPage
    /\ out.target = LabelLoginPage

\* C32 (as claimed): extractTarget and extractInput are total and
\* deterministic: for every step text, and for extractInput with a feature
\* with testData, one without, or no feature at all, the call returns a value
\* and does not fail, and the value is the one the same input always gives.
C32_TotalAndDeterministic ==
    /\ out.op = "extractTarget" => out.target = extractTarget(txt)
    /\ out.op = "extractInput" => out.input = extractInput(txt, features[1].testData)
    /\ out.op = "extractInput(step)" => ~out.threw

\* what holds of the code: with a feature both always return; without one,
\* extractInput returns the groups of a pattern that matches and throws when
\* none does
C32_TotalWithFeature ==
    /\ out.op = "extractTarget" => out.target = extractTarget(txt)
    /\ out.op = "extractInput" => out.input = extractInput(txt, features[1].testData)
    /\ out.op = "extractInput(step)" =>
          /\ out.threw <=> ~PatternMatches(txt)
          /\ ~out.threw => out.input = extractInput(txt, NoTestData)

\* extractInput('输入', undefined) has thrown
C32_ThrowReached ==
    out.op = "extractInput(step)" /\ txt = KwInput /\ out.threw

\* extractInput('输入a b', undefined) has returned a and b
C32_NoFeatureReturned ==
    /\ out.op = "extractInput(step)" /\ ~out.threw
    /\ out.input = [field |-> <<"a">>, value |-> <<"b">>]

\* the positions of a runFeatureTest call, in the order the code goes through
\* them for one step
RunOrder ==
    <<"ft_check", "ft_open", "ft_retry_close", "ft_retry_open", "ft_steps", "es_begin",
      "es_click", "es_fill_password", "es_fill_fallback", "es_verify_text", "es_verify_url",
      "es_login_password", "es_login_click", "es_return", "ft_screenshot", "ft_finally",
      "ft_return">>
InRun == \E k \in 1..(Len(RunOrder) - 1) : RunOrder[k] = pc
StepCount == IF HasSteps(feature) THEN Len(feature.steps) ELSE 0
\* the commands a step issues at most: the longest fallback list
StepCommandBound == Len(clickStrategies(<<>>))
\* the commands of a run around its steps: open, close, open again, the
\* snapshot of a run without steps or the failure screenshot, the final close
RunCommandBound == Len(<<"open", "close", "open", "snapshot or screenshot", "close">>)
\* what is left of the run: the steps not yet begun, then the positions of the
\* current step, then the fallback candidates not yet tried
LeftOfRun ==
    LET k == CHOOSE j \in 1..Len(RunOrder) : RunOrder[j] = pc
        turn == StepCommandBound + 1
        perStep == turn * (Len(RunOrder) + 1)
        \* the call starts with its own i and result: those of an earlier call
        \* of the batch are gone
        begun == IF pc = "ft_check" THEN 0 ELSE si
        tried == IF pc = "ft_check" THEN 0 ELSE es.attempt
    IN  perStep * (StepCount + 1 - begun) + turn * (Len(RunOrder) - k)
            + (StepCommandBound - tried)
SameCommandTwice(i, j) ==
    /\ ThisRun[i].cmd = ThisRun[j].cmd /\ ThisRun[i].step = ThisRun[j].step
    /\ ~IsSessionOpen(ThisRun[i]) /\ ~IsClose(ThisRun[i])

\* C33: a runFeatureTest call whose commands all complete returns: every step
\* of the call brings it nearer to its return (what is left of the run gets
\* smaller and is never negative); for a feature with N steps the run issues at
\* most 3N + 5 commands; the session is opened at most twice, the second time
\* only after the first open failed; no command other than open and close is
\* issued twice for the same step; and no step is attempted twice: the steps
\* of the commands never go back, and executeStep is always at the step after
\* the ones already recorded.
C33_RunTerminates ==
    /\ [](fi \in 1..Len(features) =>
          /\ Len(ThisRun) <= StepCommandBound * StepCount + RunCommandBound
          /\ CountOf(ThisRun, IsSessionOpen) <= 2
          /\ CountOf(ThisRun, IsSessionOpen) = 2 => ThisRun[1].res = "fail"
          /\ \A i, j \in 1..Len(ThisRun) : i < j =>
                /\ ~SameCommandTwice(i, j)
                /\ ThisRun[i].step > 0 /\ ThisRun[j].step > 0 =>
                      ThisRun[i].step <= ThisRun[j].step
          /\ (InExecuteStep \/ pc = "es_begin") =>
                es.step = si /\ si = Len(results.steps) + 1 /\ si <= StepCount
          /\ InRun => LeftOfRun >= 0)
    /\ [][InRun => LeftOfRun' < LeftOfRun]_vars

\* C33 witness: a run of MaxSteps steps has returned after a failed first open
\* and a Click that went through its three candidates
C33_Witness ==
    /\ Returned /\ StepCount = MaxSteps /\ CountOf(ThisRun, IsSessionOpen) = 2
    /\ \E j \in 1..Len(ThisRun) : ThisRun[j].cmd.name = ClickCandidateNames[3]
    /\ Len(results.steps) = MaxSteps

BatchReturned == entry = "runAllTests" /\ pc = "ra_done"
PassedResults(rs) == CountOf(rs, LAMBDA r : r.passed)
FailedResults(rs) == CountOf(rs, LAMBDA r : ~r.passed)

\* C34 (as claimed): every BatchResult returned by runAllTests has
\* total = passed + failed = length of the results list, passed the number of
\* results with passed true and failed the number with passed false, on every
\* path, the dependency-missing path included.
C34_CountsMatchResults ==
    BatchReturned =>
        /\ summary.total = summary.passed + summary.failed
        /\ summary.total = Len(summary.results)
        /\ summary.passed = PassedResults(summary.results)
        /\ summary.failed = FailedResults(summary.results)

\* C34 (amended): every BatchResult has total = passed + failed; one returned
\* after the loop has total = length of the results list, passed the number of
\* results with passed true and failed the number with passed false; the one
\* of the dependency-missing path has an empty results list, passed = 0 and
\* total = failed = the length of the input list.
C34_BatchCounts ==
    BatchReturned =>
        /\ summary.total = summary.passed + summary.failed
        /\ IF summary.error = ErrNotInstalled
           THEN /\ summary.results = <<>> /\ summary.passed = 0
                /\ summary.failed = Len(features)
           ELSE /\ summary.total = Len(summary.results)
                /\ summary.passed = PassedResults(summary.results)
                /\ summary.failed = FailedResults(summary.results)

\* C34 witness: a batch of MaxFeatures features has returned after the loop
\* with a result that passed and one that did not
C34_Witness ==
    /\ BatchReturned /\ summary.error = NoError
    /\ Len(summary.results) = MaxFeatures
    /\ summary.passed >= 1 /\ summary.failed >= 1

DeferredReturned == pc = "df_return"
\* the last command of the run is an open that succeeded
SessionLeftOpen ==
    /\ ThisRun # <<>>
    /\ IsSessionOpen(ThisRun[Len(ThisRun)]) /\ ThisRun[Len(ThisRun)].res = "ok"
\* passed = null, the steps are the feature's own, nothing but opens was issued
DeferredToCaller ==
    /\ results.passed = "null" /\ results.error = NoError
    /\ results.steps = feature.steps
    /\ SessionLeftOpen
DeferredFailuresOnly ==
    /\ results.passed # "true"
    /\ results.passed = "false" =>
          \/ results.error = ErrNotInstalled /\ ThisRun = <<>>
          \/ FailedSessionOpens = 2 /\ results.error.kind = "Failed to open browser: "

DeferredBatchReturned == entry = "e2e.js runAllTests" /\ pc = "da_done"
\* a close between a failed open and the open of the retry of the same run
IsRetryClose(j) ==
    /\ j > 1 /\ j < Len(log)
    /\ IsSessionOpen(log[j - 1]) /\ log[j - 1].res = "fail" /\ log[j - 1].feat = log[j].feat
    /\ IsSessionOpen(log[j + 1]) /\ log[j + 1].feat = log[j].feat
NullResults(rs) == CountOf(rs, LAMBDA r : r.passed = "null")
FalseResults(rs) == CountOf(rs, LAMBDA r : r.passed = "false")
\* the last command of the batch is the close of closeBrowser, and every
\* other close is the one of an open retry
ClosedOnceAtTheEnd ==
    /\ log # <<>> /\ IsClose(log[Len(log)]) /\ log[Len(log)].feat = Len(features) + 1
    /\ \A j \in 1..(Len(log) - 1) : IsClose(log[j]) => IsRetryClose(j)
NullNotCounted ==
    /\ summary.total = summary.passed + summary.failed
    /\ summary.passed = 0
    /\ summary.failed = FalseResults(summary.results)
    /\ Len(summary.results) = summary.total + NullResults(summary.results)

\* C36 (as claimed): in the deferred runAllTests the close is issued exactly
\* once per batch, as the last command after all included features were
\* processed (the close of an open retry apart, not between features); a
\* result with passed = null is counted in neither passed nor failed, so
\* total = passed + failed counts only the results with passed = false.
C36_CloseOncePerBatch ==
    /\ DeferredBatchReturned => ClosedOnceAtTheEnd /\ NullNotCounted
    /\ entry = "e2e.js runAllTests" /\ pc # "da_done" =>
          \A j \in 1..Len(log) : IsClose(log[j]) => IsRetryClose(j) \/ j = Len(log)

\* C36 (amended): as claimed for a batch that passes the dependency check of
\* runAllTests; a batch that fails it issues no command at all, no close
\* either, and returns total = failed = the length of the input list with no
\* results.
C36_CloseOncePerCheckedBatch ==
    /\ DeferredBatchReturned =>
          IF summary.error = ErrNotInstalled
          THEN /\ log = <<>> /\ summary.results = <<>> /\ summary.passed = 0
               /\ summary.failed = Len(features) /\ summary.total = Len(features)
          ELSE ClosedOnceAtTheEnd /\ NullNotCounted
    /\ entry = "e2e.js runAllTests" /\ pc # "da_done" =>
          \A j \in 1..Len(log) : IsClose(log[j]) => IsRetryClose(j) \/ j = Len(log)

\* C36 witness: a batch of MaxFeatures features has returned with one result
\* of passed = null and one of passed = false, after a retry close
C36_Witness ==
    /\ DeferredBatchReturned /\ Len(summary.results) = MaxFeatures
    /\ NullResults(summary.results) >= 1 /\ summary.failed >= 1
    /\ CountOf(log, IsClose) >= 2

\* features.json has been written by an add (a done needs a feature to write)
CliWritten == entry = "cli" /\ features # <<>>
CompletedFeatures == Cardinality({i \in 1..Len(features) : features[i].passes})

\* C37 (as claimed): after any sequence of addFeature and markDone commands the
\* metadata of features.json is consistent with its feature list:
\* total_features is the number of features, completed_features the number
\* with passes = true, and by_priority and by_category hold, for every
\* priority and category of the list, the counts recomputed from the list.
C37_MetadataConsistent ==
    CliWritten =>
        /\ summary.total_features = Len(features)
        /\ summary.completed_features = CompletedFeatures
        /\ GroupsCount(summary.by_priority, LAMBDA f : f.priority,
                       Len(features), CompletedFeatures)
        /\ GroupsCount(summary.by_category, LAMBDA f : f.category,
                       Len(features), CompletedFeatures)

\* what holds of the code: the two totals and the category table are right;
\* the priority table holds the right counts for the priorities that are not
\* names of inherited members and nothing for the others
C37_OwnNamesConsistent ==
    CliWritten =>
        /\ summary.total_features = Len(features)
        /\ summary.completed_features = CompletedFeatures
        /\ GroupsCount(summary.by_category, LAMBDA f : f.category,
                       Len(features), CompletedFeatures)
        /\ DOMAIN summary.by_priority =
              {features[i].priority : i \in 1..Len(features)} \ InheritedNames
        /\ \A k \in DOMAIN summary.by_priority :
              /\ summary.by_priority[k].total =
                    Num(Cardinality({i \in 1..Len(features) : features[i].priority = k}))
              /\ summary.by_priority[k].completed =
                    Num(Cardinality({i \in 1..Len(features) :
                                        features[i].priority = k /\ features[i].passes}))

\* add --priority constructor, then done feat-001: the stored priority table
\* is empty beside one completed feature
C37_MissingGroupReached ==
    /\ CliWritten /\ Len(features) = 1 /\ features[1].passes
    /\ features[1].priority = "constructor"
    /\ DOMAIN summary.by_priority = {}

\* 'feat-' followed by k written with three digits (k below 1000)
ThreeDigitId(k) ==
    <<"feat-", Digits[(k \div 100) + 1], Digits[((k \div 10) % 10) + 1], Digits[(k % 10) + 1]>>
\* the cases of the test of generateFeatureId
IdTestCases == {1, 9, 10, 99, 100, 999}

\* C38: after any sequence of addFeature and markDone commands on an
\* initialized project the ids of features.json are pairwise distinct and the
\* k-th added feature has the id 'feat-' followed by k zero-padded to three
\* digits, which is also what generateFeatureId gives for k; generateFeatureId
\* gives the ids its test expects.
C38_IdsDistinctAndNumbered ==
    /\ entry = "cli" =>
          /\ \A k \in 1..Len(features) :
                /\ features[k].id = ThreeDigitId(k)
                /\ features[k].id = generateFeatureId(k)
          /\ \A j, k \in 1..Len(features) : j # k => features[j].id # features[k].id
    /\ \A k \in IdTestCases : generateFeatureId(k) = ThreeDigitId(k)

\* C38 witness: features were added with a done in between, and the last one
\* added is the third
C38_Witness ==
    /\ entry = "cli" /\ Len(features) = 3 /\ features[1].passes
    /\ out = [op |-> "add", id |-> <<"feat-", "0", "0", "3">>]

IdInList(id) == \E i \in 1..Len(features) : features[i].id = id

\* C39: markDone with an id that is not in the list ends in the error outcome
\* (exit status 1) and leaves features.json as it was: the list, with every
\* feature's passes, status, attempts and notes, and the metadata; a markDone
\* that completes a feature was given an id of the list.
C39_UnknownIdWritesNothing ==
    [][entry = "cli" /\ si' = si + 1 =>
          /\ out'.op = "done: not found" =>
                /\ ~IdInList(out'.id)
                /\ out'.exit = 1
                /\ features' = features
                /\ summary' = summary
          /\ out'.op = "done" => IdInList(out'.id)]_vars

\* C39 witness: after an add and a done, a done with the id of a second
\* feature that was never added has ended in the error outcome
C39_Witness ==
    /\ entry = "cli" /\ Len(features) = 1 /\ features[1].passes
    /\ out = [op |-> "done: not found", id |-> CliFeatureId(2), exit |-> 1]

=============================================================================
